---- MODULE Spec2Model ----
(***************************************************************************)
(* Webhook event delivery of the CRM: change capture by row triggers, the  *)
(* durable event queue (webhook_event_queue) with its claim / complete /   *)
(* fail functions, the dispatch edge function (process_queue, queue_id and *)
(* direct event requests), the delivery client's retry loop and the        *)
(* per-subscription failure counter.                                       *)
(*                                                                         *)
(* Sources: supabase/migrations/20260202_webhook_triggers.sql,             *)
(*          supabase/migrations/20260202_webhook_subscriptions.sql,        *)
(*          supabase/functions/_shared/webhook-signature.ts (dispatcher),  *)
(*          supabase/functions/_shared/webhook-client.ts,                  *)
(*          supabase/WEBHOOK_SETUP.md (operator procedures).               *)
(*                                                                         *)
(* The database runs at READ COMMITTED: every statement sees the rows      *)
(* committed before it starts, a row lock is held to the end of the        *)
(* transaction, NOW() is the start time of the transaction.  A step of the *)
(* model is one statement (or one awaited call of the edge function).      *)
(***************************************************************************)
EXTENDS Integers, Sequences, FiniteSets, TLC

(***************************************************************************)
(* Bounds of the model                                                     *)
(***************************************************************************)
MaxWrites == 2          \* write transactions on watched tables
MaxDispatchers == 2     \* concurrent invocations of the dispatch function
MaxTime == 1            \* clock values (seconds) in the claim specification
MaxRetryTime == 21      \* clock values in the retry specification
MaxRetryWrites == 1     \* write transactions in the retry specification
MaxSubs == 1            \* rows of webhook_subscriptions in the breaker specification
MaxDispatchSubs == 2    \* rows of webhook_subscriptions in the dispatch specification
MaxDispatchTime == 4    \* clock values in the dispatch specification
MaxBatch == 2           \* batch_size values a process_queue request passes
MaxStrLen == 2          \* code units of a payload or a secret
MaxStamp == 8           \* sender clock readings, in steps
StampStep == 60000      \* milliseconds between two of them
MaxAttemptsSeen == 4     \* the operator's reset stops at rows claimed that often
MaxAdminSubs == 1        \* subscriptions created through the admin API
JitterSteps == 50        \* values of Math.random() told apart: k / JitterSteps
MaxBackoffAttempt == 5   \* attempts whose backoff is computed
MaxClaimRows == 3        \* rows of the queue a single claim call meets
MaxBatchSubs == 2        \* subscriptions given to one sendWebhookBatch call
MaxBatchRetries == 2     \* maxRetries of the sendWebhookBatch calls
MaxCleanupRows == 3      \* rows of the queue a cleanup call meets
MaxRetentionDays == 2    \* largest retention_days passed to cleanup_webhook_queue
MaxWaitTicks == 5        \* clock ticks (thirds of the timeout) one attempt is watched for

(***************************************************************************)
(* Program constants                                                       *)
(***************************************************************************)
MAX_FAILURE_COUNT == 10         \* webhook-signature.ts:591
DEFAULT_MAX_ATTEMPTS == 3       \* webhook_triggers.sql:111 (max_attempts DEFAULT 3)
BACKOFF_BASE == 4               \* webhook_triggers.sql:359 POWER(4, current_attempts)
MAX_RETRIES == 3                \* webhook-signature.ts:941 maxRetries: 3
BASE_DELAY_MS == 1000           \* webhook-client.ts:68 baseDelayMs (and webhook-signature.ts:942)
MAX_DELAY_MS == 60000           \* webhook-client.ts:69 maxDelayMs
TIMEOUT_MS == 30000             \* webhook-client.ts:70 timeoutMs (and webhook-signature.ts:943)

Tables == {"contacts", "deals", "companies", "tasks", "notes"}
Ops == {"INSERT", "UPDATE", "DELETE"}
TriggerFunctions == {"notify_webhook", "queue_webhook_event"}
Dispatchers == 1..MaxDispatchers

\* claim_webhook_events RETURNS TABLE (id ...), which makes id a variable of
\* the function, and its UPDATE says WHERE id IN (...) without a qualifier.
\* What the call does depends on plpgsql.variable_conflict, which the
\* migrations do not set: "error" (the server default) raises "column
\* reference "id" is ambiguous" on every call, "use_variable" compares the
\* (null) variable and updates no row, "use_column" updates the selected rows.
VariableConflicts == {"error", "use_variable", "use_column"}

VARIABLES
    call,           \* the call of a library function under examination
    requests,       \* history: the HTTP deliveries the dispatcher has made
    variable_conflict,  \* how the database resolves a name that is both a
                        \* PL/pgSQL variable and a column (plpgsql.variable_conflict)
    now,            \* the database clock, in seconds
    trigger_func,   \* table -> the function its row trigger executes
    txns,           \* txid -> write transaction on a watched table
    queue_seq,      \* last value of webhook_event_queue_id_seq
    queue,          \* id -> committed row of webhook_event_queue
    inv,            \* dispatcher -> the request it is serving
    tasks,          \* dispatcher -> (queue id or 0 -> dispatch of one event)
    subs,           \* id -> row of webhook_subscriptions
    webhook_logs,   \* rows of webhook_logs (as a set of abstracted rows)
    notified,       \* pg_notify messages sent by committed transactions
    claims_since_pending,  \* history: id -> claim calls that returned the row
                           \* since it last became pending
    consecutive     \* history: sub id -> failed deliveries recorded since the
                    \* last recorded success / reset (saturates)

vars == <<call, requests, variable_conflict, now, trigger_func, txns, queue_seq, queue, inv, tasks, subs,
          webhook_logs, notified, claims_since_pending, consecutive>>

(***************************************************************************)
(* Small helpers                                                           *)
(***************************************************************************)
RECURSIVE Pow(_, _)
Pow(b, n) == IF n = 0 THEN 1 ELSE b * Pow(b, n - 1)

Min(a, b) == IF a <= b THEN a ELSE b

Extend(f, k, v) == [x \in DOMAIN f \cup {k} |-> IF x = k THEN v ELSE f[x]]

Restrict(f, S) == [x \in S |-> f[x]]

(***************************************************************************)
(* Change capture                                                          *)
(***************************************************************************)
\* LOWER(TG_OP)
Lower(op) ==
    CASE op = "INSERT" -> "insert"
      [] op = "UPDATE" -> "update"
      [] op = "DELETE" -> "delete"

\* CASE table_name ... END CASE: the singular entity name
Singular(t) ==
    CASE t = "contacts" -> "contact"
      [] t = "deals" -> "deal"
      [] t = "companies" -> "company"
      [] t = "tasks" -> "task"
      [] t = "notes" -> "note"
      [] OTHER -> t

\* event_type := '<entity>.' || action, as the pair <<entity, action>>
EventTypeOf(t, op) == <<Singular(t), Lower(op)>>

\* The function a freshly migrated database runs for the row trigger of a
\* watched table: every CREATE TRIGGER of the migration, and
\* add_webhook_trigger, say EXECUTE FUNCTION notify_webhook().
InstalledTriggerFunction(t) == "notify_webhook"

\* payload := jsonb_build_object('event', event_type, 'table', table_name,
\* 'action', action, ...)
EnvelopeOf(t, op) ==
    [event |-> EventTypeOf(t, op), table |-> t, action |-> Lower(op)]

\* INSERT INTO webhook_event_queue (event_type, payload): the column defaults
NewQueueRow(t, op, txid, started) ==
    [event_type |-> EventTypeOf(t, op),
     payload |-> EnvelopeOf(t, op),
     txid |-> txid,
     status |-> "pending",
     attempts |-> 0,
     max_attempts |-> DEFAULT_MAX_ATTEMPTS,
     created_at |-> started,
     next_attempt_at |-> started,
     error_message |-> "null"]

\* Rows a trigger function inserts into the queue for one written row:
\* queue_webhook_event inserts one, notify_webhook only calls pg_notify.
RowsQueuedBy(func) == IF func = "queue_webhook_event" THEN 1 ELSE 0

IdleInv == [kind |-> "idle", pc |-> "idle", batch |-> 0, txn_now |-> 0,
            cand |-> <<>>, got |-> {}, locked |-> {}]

NoCall == [fn |-> "none"]

\* The database after the migrations, no request being served
InitSystem ==
    /\ requests = {}
    /\ variable_conflict \in VariableConflicts
    /\ now = 0
    /\ trigger_func = [t \in Tables |-> InstalledTriggerFunction(t)]
    /\ txns = <<>>
    /\ queue_seq = 0
    /\ queue = <<>>
    /\ inv = [d \in Dispatchers |-> IdleInv]
    /\ tasks = [d \in Dispatchers |-> <<>>]
    /\ subs = <<>>
    /\ webhook_logs = {}
    /\ notified = {}
    /\ claims_since_pending = <<>>
    /\ consecutive = <<>>

Init == InitSystem /\ call = NoCall

\* The operator points the row trigger of table t at the queue-based
\* function ("Alternative: Queue-based approach for reliability"); nothing
\* in the migrations does.
AttachQueueTrigger(t) ==
    /\ trigger_func[t] # "queue_webhook_event"
    \* CREATE TRIGGER waits for the open transactions that wrote the table
    /\ \A x \in DOMAIN txns : txns[x].state = "open" => txns[x].table # t
    /\ trigger_func' = [trigger_func EXCEPT ![t] = "queue_webhook_event"]
    /\ UNCHANGED <<call, requests, variable_conflict, now, txns, queue_seq, queue, inv, tasks, subs, webhook_logs,
                   notified, claims_since_pending, consecutive>>

\* A transaction writes one row of watched table t; the AFTER ... FOR EACH ROW
\* trigger runs the table's trigger function inside the transaction.
WriteBegin(t, op, limit) ==
    /\ Len(txns) < limit
    /\ LET x == Len(txns) + 1
           n == RowsQueuedBy(trigger_func[t])
       IN /\ txns' = Append(txns, [table |-> t, op |-> op, state |-> "open",
                                   func |-> trigger_func[t],
                                   row |-> IF n = 1 THEN queue_seq + 1 ELSE 0,
                                   started |-> now])
          /\ queue_seq' = queue_seq + n
    /\ UNCHANGED <<call, requests, variable_conflict, now, trigger_func, queue, inv, tasks, subs, webhook_logs,
                   notified, claims_since_pending, consecutive>>

\* COMMIT: the queued row, if any, becomes visible; the notification is sent.
WriteCommit(x) ==
    /\ x \in DOMAIN txns
    /\ txns[x].state = "open"
    /\ txns' = [txns EXCEPT ![x].state = "committed"]
    /\ LET w == txns[x]
       IN /\ queue' = IF w.row = 0 THEN queue
                      ELSE Extend(queue, w.row,
                                  NewQueueRow(w.table, w.op, x, w.started))
          /\ claims_since_pending' =
                IF w.row = 0 THEN claims_since_pending
                ELSE Extend(claims_since_pending, w.row, 0)
          /\ notified' = notified \cup
                {[txid |-> x, event |-> EventTypeOf(w.table, w.op),
                  queue_id |-> w.row]}
    /\ UNCHANGED <<call, requests, variable_conflict, now, trigger_func, queue_seq, inv, tasks, subs, webhook_logs,
                   consecutive>>

\* ROLLBACK: the write and whatever its trigger inserted are discarded (the
\* sequence value is not given back).
WriteRollback(x) ==
    /\ x \in DOMAIN txns
    /\ txns[x].state = "open"
    /\ txns' = [txns EXCEPT ![x].state = "aborted"]
    /\ UNCHANGED <<call, requests, variable_conflict, now, trigger_func, queue_seq, queue, inv, tasks, subs,
                   webhook_logs, notified, claims_since_pending, consecutive>>

(***************************************************************************)
(* The clock                                                               *)
(***************************************************************************)
Tick(limit) ==
    /\ now < limit
    /\ now' = now + 1
    /\ UNCHANGED <<call, requests, variable_conflict, trigger_func, txns, queue_seq, queue, inv, tasks, subs,
                   webhook_logs, notified, claims_since_pending, consecutive>>

\* Time passes until a rescheduled row is due
AwaitDue(limit) ==
    /\ \E id \in DOMAIN queue :
          /\ queue[id].status = "pending"
          /\ queue[id].next_attempt_at > now
          /\ queue[id].next_attempt_at <= limit
          /\ now' = queue[id].next_attempt_at
    /\ UNCHANGED <<call, requests, variable_conflict, trigger_func, txns, queue_seq, queue, inv, tasks, subs,
                   webhook_logs, notified, claims_since_pending, consecutive>>

(***************************************************************************)
(* Signatures: signPayload, verifySignature                                *)
(***************************************************************************)
\* A JavaScript string is a sequence of UTF-16 code units: two BMP
\* characters, a high and a low surrogate.
CodeUnits == {"a", "b", "HS", "LS"}

StringsUpTo(n) == UNION {[1..k -> CodeUnits] : k \in 0..n}

\* Strings the program holds: JSON.stringify output, request bodies decoded
\* from UTF-8 and database text have no unpaired surrogate.
RECURSIVE WellFormed(_)
WellFormed(str) ==
    IF str = <<>> THEN TRUE
    ELSE IF Head(str) = "HS"
         THEN Len(str) >= 2 /\ str[2] = "LS" /\ WellFormed(Tail(Tail(str)))
    ELSE IF Head(str) = "LS" THEN FALSE
    ELSE WellFormed(Tail(str))

\* new TextEncoder().encode(str): one code point per BMP unit or surrogate
\* pair; an unpaired surrogate becomes U+FFFD.
RECURSIVE Utf8(_)
Utf8(str) ==
    IF str = <<>> THEN <<>>
    ELSE IF Head(str) = "HS" /\ Len(str) >= 2 /\ str[2] = "LS"
         THEN <<"U+10000">> \o Utf8(Tail(Tail(str)))
    ELSE IF Head(str) \in {"HS", "LS"} THEN <<"U+FFFD">> \o Utf8(Tail(str))
    ELSE <<Head(str)>> \o Utf8(Tail(str))

\* crypto.subtle.sign('HMAC', key, data), taken as collision-free: the
\* digest stands for the pair (key, data) and for nothing else
Hmac(keyData, payloadData) == keyData \o <<"|">> \o payloadData

\* b.toString(16).padStart(2, '0') of the bytes of one element of a digest
HexOf(x) ==
    CASE x = "a" -> "61"
      [] x = "b" -> "62"
      [] x = "|" -> "7c"
      [] x = "U+10000" -> "f0908080"
      [] x = "U+FFFD" -> "efbfbd"
      [] x = "." -> "2e"
      [] x = "x" -> "78"
      [] x = "0" -> "30" [] x = "1" -> "31" [] x = "2" -> "32" [] x = "3" -> "33"
      [] x = "4" -> "34" [] x = "5" -> "35" [] x = "6" -> "36" [] x = "7" -> "37"
      [] x = "8" -> "38" [] x = "9" -> "39"

\* encodeSignature(buffer, 'hex')
encodeSignature(digest) == [i \in 1..Len(digest) |-> HexOf(digest[i])]

\* DEFAULT_OPTIONS.prefix
SIG_PREFIX == <<"sha256=">>

\* signPayload(payload, secret) with the default options
signPayload(payload, secret) ==
    SIG_PREFIX \o encodeSignature(Hmac(Utf8(secret), Utf8(payload)))

\* signature.startsWith(prefix)
StartsWith(str, prefix) ==
    Len(str) >= Len(prefix) /\ SubSeq(str, 1, Len(prefix)) = prefix

\* A verifier that compares the presented signature as it came
KeepPrefix(signature) == signature

\* if (opts.prefix && signature.startsWith(opts.prefix)) slice it off
StripPrefix(signature) ==
    IF StartsWith(signature, SIG_PREFIX)
    THEN SubSeq(signature, Len(SIG_PREFIX) + 1, Len(signature))
    ELSE signature

\* timingSafeEqual(a, b): equal length and no differing code unit
timingSafeEqual(a, b) ==
    /\ Len(a) = Len(b)
    /\ \A i \in 1..Len(a) : a[i] = b[i]

\* verifySignature(payload, signature, secret).valid
verifySignature(payload, signature, secret) ==
    timingSafeEqual(StripPrefix(signature),
                    StripPrefix(signPayload(payload, secret)))

(***************************************************************************)
(* Request verification: buildWebhookHeaders, verifyWebhookRequest         *)
(***************************************************************************)
MAX_AGE_MS == 300000        \* maxAgeMs: number = 300000
FUTURE_SKEW_MS == 60000     \* requestTime > now + 60000

DigitChars == <<"0", "1", "2", "3", "4", "5", "6", "7", "8", "9">>

\* n.toString() of a non-negative integer
RECURSIVE DecimalOf(_)
DecimalOf(n) ==
    IF n < 10 THEN <<DigitChars[n + 1]>>
    ELSE DecimalOf(n \div 10) \o <<DigitChars[(n % 10) + 1]>>

DigitValue(c) == CHOOSE d \in 0..9 : DigitChars[d + 1] = c

IsDigit(c) == \E d \in 0..9 : DigitChars[d + 1] = c

\* The value of the leading digits of str read after acc; with no digit read
\* yet acc is NaN (-1)
RECURSIVE ParseDigits(_, _)
ParseDigits(str, acc) ==
    IF str = <<>> \/ ~IsDigit(Head(str)) THEN acc
    ELSE ParseDigits(Tail(str), (IF acc < 0 THEN 0 ELSE acc * 10) + DigitValue(Head(str)))

NaN == -1

\* parseInt(str, 10) of a string without sign or leading blanks: the digits
\* it starts with, whatever follows them
parseInt(str) == ParseDigits(str, NaN)

\* A signature over the body alone
BodyOnly(timestamp, payload) == payload

\* `${timestamp}.${payload}`
SignedPayload(timestamp, payload) == timestamp \o <<".">> \o payload

\* buildWebhookHeaders(payload, secret, ...) at Date.now() = at; an absent
\* header is the empty string
buildWebhookHeaders(payload, secret, at) ==
    [signature |-> signPayload(SignedPayload(DecimalOf(at), payload), secret),
     timestamp |-> DecimalOf(at)]

\* verifyWebhookRequest(payload, headers, secret) at Date.now() = at: "valid"
\* or the error it returns
verifyWebhookRequest(payload, headers, secret, at) ==
    IF headers.signature = <<>> THEN "Missing signature header"
    ELSE IF headers.timestamp = <<>> THEN "Missing timestamp header"
    ELSE IF parseInt(headers.timestamp) = NaN THEN "Invalid timestamp format"
    ELSE IF at - parseInt(headers.timestamp) > MAX_AGE_MS THEN "Request timestamp too old"
    ELSE IF parseInt(headers.timestamp) > at + FUTURE_SKEW_MS
         THEN "Request timestamp in future"
    ELSE IF verifySignature(SignedPayload(headers.timestamp, payload),
                            headers.signature, secret)
         THEN "valid"
    ELSE "Invalid signature"

(***************************************************************************)
(* Subscription registry                                                   *)
(***************************************************************************)
ExampleUrl == [protocol |-> "https:", hostname |-> <<"example", "com">>]
LoopbackUrl == [protocol |-> "http:", hostname |-> <<"127", "0", "0", "1">>]

BLOCKED_HOSTNAMES ==
    {<<"localhost">>, <<"metadata", "google", "internal">>,
     <<"169", "254", "169", "254">>, <<"metadata", "azure", "com">>,
     <<"metadata", "aws", "com">>}

\* BLOCKED_IP_PATTERNS on parsed.hostname, a sequence of labels.  The labels
\* of an IPv6 hostname are its first group with the colon that follows and
\* the rest; URL.hostname gives an IPv6 literal in its brackets, so its
\* first label starts with "[".
BlockedIpPattern(h) ==
    \/ /\ Len(h) >= 2
       /\ \/ h[1] \in {"127", "10", "0"}
          \/ h[1] = "172" /\ h[2] \in {"16", "17", "18", "19", "20", "21", "22", "23",
                                       "24", "25", "26", "27", "28", "29", "30", "31"}
          \/ h[1] = "192" /\ h[2] = "168"
          \/ h[1] = "169" /\ h[2] = "254"
    \/ h = <<"::1">>                                     \* /^::1$/
    \/ Len(h) >= 1 /\ h[1] \in {"fc00:", "fe80:"}        \* /^fc00:/i, /^fe80:/i

\* hostname === domain || hostname.endsWith(`.${domain}`)
AllowedBy(h, domain) ==
    \/ h = domain
    \/ /\ Len(h) > Len(domain)
       /\ SubSeq(h, Len(h) - Len(domain) + 1, Len(h)) = domain

\* validateWebhookUrl(url).valid with WEBHOOK_URL_ALLOWLIST = allowlist (empty
\* when unset) and DENO_DEPLOYMENT_ID set or not; a string new URL() cannot
\* parse has no protocol here.
validateWebhookUrlIn(url, allowlist, production) ==
    /\ url.protocol # ""
    /\ production => url.protocol = "https:"
    /\ url.protocol \in {"http:", "https:"}
    /\ url.hostname \notin BLOCKED_HOSTNAMES
    /\ ~BlockedIpPattern(url.hostname)
    /\ allowlist # {} => \E domain \in allowlist : AllowedBy(url.hostname, domain)

\* validateWebhookUrl, with WEBHOOK_URL_ALLOWLIST unset and outside production
validateWebhookUrl(url) == validateWebhookUrlIn(url, {}, FALSE)

\* secret TEXT NOT NULL of the rows users insert
SubscriptionSecrets == {<<"a">>, <<"b">>}

\* A user inserts a row of webhook_subscriptions (policy "Users can create own
\* subscriptions"); the column defaults give active = true, failure_count = 0.
InsertSubscription(url, events, limit) ==
    /\ Cardinality(DOMAIN subs) < limit
    /\ url.protocol \in {"http:", "https:"}        \* CONSTRAINT valid_url
    /\ events # {}                                 \* CONSTRAINT valid_events
    /\ \E secret \in SubscriptionSecrets :
          LET s == Cardinality(DOMAIN subs) + 1
          IN /\ subs' = Extend(subs, s, [url |-> url, secret |-> secret,
                                         events |-> events,
                                         active |-> TRUE, failure_count |-> 0])
             /\ consecutive' = Extend(consecutive, s, 0)
    /\ UNCHANGED <<call, requests, variable_conflict, now, trigger_func, txns, queue_seq, queue, inv, tasks,
                   webhook_logs, notified, claims_since_pending>>

\* An update that writes the active flag of the request and nothing else
ActiveOnly(row, active) == [row EXCEPT !.active = active]

\* updateData of updateSubscription for a request that gives "active"
ActiveUpdate(row, active) ==
    IF active THEN [row EXCEPT !.active = TRUE, !.failure_count = 0]
    ELSE [row EXCEPT !.active = FALSE]

\* PATCH /webhook-admin/{id} {"active": ...}
UpdateSubscription(s, active) ==
    /\ s \in DOMAIN subs
    /\ subs' = [subs EXCEPT ![s] = ActiveUpdate(subs[s], active)]
    /\ subs' # subs
    /\ consecutive' = IF active THEN [consecutive EXCEPT ![s] = 0] ELSE consecutive
    /\ UNCHANGED <<call, requests, variable_conflict, now, trigger_func, txns, queue_seq, queue, inv, tasks,
                   webhook_logs, notified, claims_since_pending>>

\* .eq('active', true).contains('events', [eventType])
MatchingSubscriptions(ev) ==
    {s \in DOMAIN subs : subs[s].active /\ ev \in subs[s].events}

(***************************************************************************)
(* Delivery client: sendWebhook                                            *)
(***************************************************************************)
RETRYABLE_STATUS_CODES == {408, 429, 500, 502, 503, 504}
NON_RETRYABLE_ERRORS == {"TypeError"}

\* What one attempt meets at the destination: an HTTP response, the abort of
\* the per-attempt timeout, or an exception of fetch with the given name.
Http(status) == [kind |-> "http", status |-> status, name |-> "none"]
Timeout == [kind |-> "timeout", status |-> 0, name |-> "AbortError"]
Throws(name) == [kind |-> "throw", status |-> 0, name |-> name]

\* const success = response.status >= 200 && response.status < 300
Success(b) == b.kind = "http" /\ b.status >= 200 /\ b.status < 300

\* A classification that retries every failed attempt
RetriesEveryFailure(b) == TRUE

\* isRetryable on what deliverWebhook returned (a response or a timeout)
isRetryable(b) ==
    \/ b.kind = "timeout"                               \* !status && error
    \/ b.kind = "http" /\ b.status \in RETRYABLE_STATUS_CODES

\* Whether the loop of sendWebhook goes on after an attempt that met b
RetryAfter(b) ==
    IF b.kind = "throw" THEN b.name \notin NON_RETRYABLE_ERRORS
    ELSE isRetryable(b)

\* The while loop of sendWebhook from attempt n on; behaviour[n] is what
\* attempt n meets.  The result is what deliverToSubscriptions reads.
RECURSIVE SendFrom(_, _, _)
SendFrom(behaviour, n, maxRetries) ==
    LET b == behaviour[n]
        last == [success |-> Success(b),
                 status |-> b.status,
                 errorCode |-> CASE b.kind = "http" -> "none"
                                 [] b.kind = "timeout" -> "TIMEOUT"
                                 [] OTHER -> b.name,
                 attempts |-> n]
    IN IF Success(b) \/ ~RetryAfter(b) \/ n >= maxRetries THEN last
       ELSE SendFrom(behaviour, n + 1, maxRetries)

sendWebhook(behaviour, maxRetries) == SendFrom(behaviour, 1, maxRetries)

(***************************************************************************)
(* Event queue functions                                                   *)
(***************************************************************************)
\* Requests are interchangeable: a new one is served by the lowest idle
\* dispatcher instance.
FreeSlot(d) ==
    /\ inv[d].kind = "idle"
    /\ \A d2 \in Dispatchers : d2 < d => inv[d2].kind # "idle"

LockedByOther(d, id) == \E d2 \in Dispatchers \ {d} : id \in inv[d2].locked

\* A claim that also takes back entries left in processing
ClaimableOrStale(row, txn_now) ==
    row.status \in {"pending", "processing"} /\ row.next_attempt_at <= txn_now

\* WHERE weq.status = 'pending' AND weq.next_attempt_at <= NOW()
Claimable(row, txn_now) ==
    row.status = "pending" /\ row.next_attempt_at <= txn_now

\* ORDER BY weq.created_at: the orders of S the sort may produce
OrdersByCreation(S) ==
    {o \in [1..Cardinality(S) -> S] :
        /\ \A i, j \in DOMAIN o : i # j => o[i] # o[j]
        /\ \A i, j \in DOMAIN o :
              i < j => queue[o[i]].created_at <= queue[o[j]].created_at}

\* FOR UPDATE without SKIP LOCKED and without waiting: no row is passed over
NoSkipLocked(d, id) == FALSE

\* FOR UPDATE SKIP LOCKED: a row another transaction holds is passed over
SkipLocked(d, id) == LockedByOther(d, id)

\* SET status = 'processing', attempts = attempts + 1
ClaimedRow(row) == [row EXCEPT !.status = "processing", !.attempts = @ + 1]

\* An UPDATE that puts the row back to pending instead of closing it
ReopenedRow(row) == [row EXCEPT !.status = "pending"]

\* complete_webhook_event
CompletedRow(row) == [row EXCEPT !.status = "completed"]

\* backoff_seconds := POWER(4, current_attempts)
BackoffSeconds(attempts) == Pow(BACKOFF_BASE, attempts)

\* The UPDATE of fail_webhook_event, from the values its SELECT read
FailedRow(row, cur_attempts, cur_max, txn_now, msg) ==
    IF cur_attempts >= cur_max
    THEN [row EXCEPT !.status = "failed", !.error_message = msg]
    ELSE [row EXCEPT !.status = "pending", !.error_message = msg,
                     !.next_attempt_at = txn_now + BackoffSeconds(cur_attempts)]

\* "Reprocess failed events": SET status = 'pending', next_attempt_at = NOW()
ResetRow(row, txn_now) ==
    [row EXCEPT !.status = "pending", !.next_attempt_at = txn_now]

NewTask(ev) ==
    [pc |-> "lookup", event |-> ev, matched |-> <<>>, results |-> <<>>,
     todo |-> {}, f_attempts |-> 0, f_max |-> 0, f_now |-> 0]

(***************************************************************************)
(* Dispatch edge function                                                  *)
(***************************************************************************)
\* POST {process_queue: true, batch_size: b}: claim_webhook_events starts; its
\* subquery reads the snapshot of the statement.
StartProcessQueue(d, b) ==
    /\ FreeSlot(d)
    /\ \E o \in OrdersByCreation({id \in DOMAIN queue : Claimable(queue[id], now)}) :
          inv' = [inv EXCEPT ![d] = [kind |-> "process_queue", pc |-> "claim",
                                     batch |-> b, txn_now |-> now, cand |-> o,
                                     got |-> {}, locked |-> {}]]
    /\ UNCHANGED <<call, requests, variable_conflict, now, trigger_func, txns, queue_seq, queue, tasks, subs,
                   webhook_logs, notified, claims_since_pending, consecutive>>

\* The LockRows node takes the next row of the sorted scan: a row locked by
\* another transaction is skipped; otherwise it is locked and the WHERE
\* clause is evaluated again on its latest committed version.
ClaimScan(d) ==
    /\ variable_conflict # "error"
    /\ inv[d].pc = "claim"
    /\ inv[d].cand # <<>>
    /\ Cardinality(inv[d].got) < inv[d].batch        \* LIMIT batch_size
    /\ LET id == Head(inv[d].cand)
       IN inv' = [inv EXCEPT
             ![d].cand = Tail(@),
             ![d].locked = IF SkipLocked(d, id) THEN @ ELSE @ \cup {id},
             ![d].got = IF ~SkipLocked(d, id) /\ Claimable(queue[id], inv[d].txn_now)
                        THEN @ \cup {id} ELSE @]
    /\ UNCHANGED <<call, requests, variable_conflict, now, trigger_func, txns, queue_seq, queue, tasks, subs,
                   webhook_logs, notified, claims_since_pending, consecutive>>

\* The rows WHERE id IN (<selected rows>) is true of
RowsUpdated(selected) == IF variable_conflict = "use_column" THEN selected ELSE {}

\* The statement cannot be analysed: the call raises, processQueue answers
\* 500 "Failed to claim events" and no row is touched.
ClaimRaises(d) ==
    /\ variable_conflict = "error"
    /\ inv[d].pc = "claim"
    /\ inv' = [inv EXCEPT ![d] = IdleInv]
    /\ UNCHANGED <<call, requests, variable_conflict, now, trigger_func, txns, queue_seq, queue,
                   tasks, subs, webhook_logs, notified, claims_since_pending,
                   consecutive>>

\* The UPDATE of the selected rows, RETURNING them, and the commit.  With no
\* row returned processQueue answers "No pending events in queue"; otherwise
\* Promise.all starts one dispatch per returned event.
ClaimCommit(d) ==
    /\ variable_conflict # "error"
    /\ inv[d].pc = "claim"
    /\ inv[d].cand = <<>> \/ Cardinality(inv[d].got) >= inv[d].batch
    /\ LET got == RowsUpdated(inv[d].got)
       IN /\ queue' = [id \in DOMAIN queue |->
                          IF id \in got THEN ClaimedRow(queue[id]) ELSE queue[id]]
          /\ claims_since_pending' =
                [id \in DOMAIN claims_since_pending |->
                    IF id \in got THEN claims_since_pending[id] + 1
                    ELSE claims_since_pending[id]]
          /\ inv' = [inv EXCEPT ![d] =
                        IF got = {} THEN IdleInv
                        ELSE [IdleInv EXCEPT !.kind = "process_queue",
                                             !.pc = "dispatch"]]
          /\ tasks' = [tasks EXCEPT ![d] =
                          [id \in got |-> NewTask(queue[id].event_type)]]
    /\ UNCHANGED <<call, requests, variable_conflict, now, trigger_func, txns, queue_seq, subs, webhook_logs,
                   notified, consecutive>>

\* POST {queue_id: id}: processQueueItem reads the row and dispatches it
\* unless its status is completed (a missing row is answered 404).
ProcessQueueItem(d, id) ==
    /\ FreeSlot(d)
    /\ id \in DOMAIN queue
    /\ queue[id].status # "completed"
    /\ inv' = [inv EXCEPT ![d] = [IdleInv EXCEPT !.kind = "queue_id",
                                                 !.pc = "dispatch"]]
    /\ tasks' = [tasks EXCEPT ![d] = (id :> NewTask(queue[id].event_type))]
    /\ UNCHANGED <<call, requests, variable_conflict, now, trigger_func, txns, queue_seq, queue, subs, webhook_logs,
                   notified, claims_since_pending, consecutive>>

\* POST {event: ev, ...}: dispatchEvent, which has no queue row (key 0)
DispatchEvent(d, ev) ==
    /\ FreeSlot(d)
    /\ inv' = [inv EXCEPT ![d] = [IdleInv EXCEPT !.kind = "event",
                                                 !.pc = "dispatch"]]
    /\ tasks' = [tasks EXCEPT ![d] = (0 :> NewTask(ev))]
    /\ UNCHANGED <<call, requests, variable_conflict, now, trigger_func, txns, queue_seq, queue, subs, webhook_logs,
                   notified, claims_since_pending, consecutive>>

\* tasks and inv once the dispatch of e by d has settled: with the last
\* dispatch of the request settled the response is sent and d is idle again.
TasksAfterSettle(d, e) ==
    [tasks EXCEPT ![d] = Restrict(@, DOMAIN @ \ {e})]

InvAfterSettle(d, e) ==
    IF DOMAIN tasks[d] = {e} THEN [inv EXCEPT ![d] = IdleInv] ELSE inv

\* tasks and inv once the dispatch of e by d moves to its next step
TasksAfterStep(d, e, pc, t) ==
    IF pc = "done" THEN TasksAfterSettle(d, e)
    ELSE [tasks EXCEPT ![d][e] = [t EXCEPT !.pc = pc]]

InvAfterStep(d, e, pc) == IF pc = "done" THEN InvAfterSettle(d, e) ELSE inv

\* A dispatch that treats a failed delivery as an error of the dispatch
AfterDispatchStrict(kind, results) ==
    IF kind = "event" THEN "done"
    ELSE IF \E s \in DOMAIN results : ~results[s].success THEN "fail_begin"
    ELSE "complete"

\* Where a dispatch goes once dispatchPayload / deliverToSubscriptions has
\* returned: processQueue and processQueueItem call complete_webhook_event,
\* dispatchEvent answers.  Delivery results are not looked at.
AfterDispatch(kind, results) == IF kind = "event" THEN "done" ELSE "complete"

\* Where it goes when the subscription lookup returns an error:
\* dispatchPayload throws and the catch block calls fail_webhook_event;
\* dispatchEvent answers 500.
AfterLookupError(kind) == IF kind = "event" THEN "done" ELSE "fail_begin"

\* The SELECT on webhook_subscriptions fails
LookupFails(d, e) ==
    /\ e \in DOMAIN tasks[d]
    /\ tasks[d][e].pc = "lookup"
    /\ tasks' = TasksAfterStep(d, e, AfterLookupError(inv[d].kind), tasks[d][e])
    /\ inv' = InvAfterStep(d, e, AfterLookupError(inv[d].kind))
    /\ UNCHANGED <<call, requests, variable_conflict, now, trigger_func, txns, queue_seq, queue, subs,
                   webhook_logs, notified, claims_since_pending, consecutive>>

\* The SELECT returns the active subscriptions registered for the event,
\* with the failure_count each has now.
LookupOk(d, e) ==
    /\ e \in DOMAIN tasks[d]
    /\ tasks[d][e].pc = "lookup"
    /\ LET S == MatchingSubscriptions(tasks[d][e].event)
           pc == IF S = {} THEN AfterDispatch(inv[d].kind, <<>>) ELSE "deliver"
           t == [tasks[d][e] EXCEPT !.matched =
                    [s \in S |-> [failure_count |-> subs[s].failure_count,
                                  url |-> subs[s].url,
                                  secret |-> subs[s].secret]]]
       IN /\ tasks' = TasksAfterStep(d, e, pc, t)
          /\ inv' = InvAfterStep(d, e, pc)
    /\ UNCHANGED <<call, requests, variable_conflict, now, trigger_func, txns, queue_seq, queue, subs,
                   webhook_logs, notified, claims_since_pending, consecutive>>

\* The text crypto.randomUUID() returns, as one token
RandomUuid == <<"uuid">>

\* webhookId: `${subscription.id}-${crypto.randomUUID()}`, which sendWebhook
\* returns as response.webhookId
BatchWebhookId(s) == DecimalOf(s) \o <<"-">> \o RandomUuid

\* What the columns of webhook_logs accept of an inserted row:
\* subscription_id BIGINT NOT NULL REFERENCES webhook_subscriptions(id) and
\* event_id UUID NOT NULL; the other columns inserted are nullable or take
\* the values the dispatcher writes.
AcceptedByLogTable(row, subscriptions) ==
    /\ row.subscription_id \in subscriptions
    /\ row.event_id = RandomUuid

\* One row of the batch insert into webhook_logs
LogRow(s, ev, r) ==
    [subscription_id |-> s, event_type |-> ev, event_id |-> BatchWebhookId(s),
     response_status |-> r.status,
     attempts |-> r.attempts, success |-> r.success, error |-> r.errorCode]

\* The batch insert is one statement: webhook_logs takes the rows when it
\* accepts every one of them, and otherwise the statement fails with an
\* error that deliverToSubscriptions writes to the console and drops.
LogsAfterInsert(logs, rows, subscriptions) ==
    IF \A row \in rows : AcceptedByLogTable(row, subscriptions)
    THEN logs \cup rows ELSE logs

\* A fan-out that delivers to every matched subscription
AllSubscriptions(matched) == DOMAIN matched

\* validatedSubscriptions: the matched subscriptions whose URL passes
\* validateWebhookUrl; the others are skipped with a console.warn.
ValidatedSubscriptions(matched) ==
    {s \in DOMAIN matched : validateWebhookUrl(matched[s].url)}

\* const payloadString = JSON.stringify(payload): the text of the envelope,
\* abbreviated to one code unit that tells the actions apart
PayloadString(ev) ==
    IF ev[2] \in {"insert", "created"} THEN <<"a">> ELSE <<"b">>

\* Milliseconds between the first attempt of a sendWebhook call and its n-th:
\* the sleeps calculateBackoff(k, 1000, ...) for k < n, without their jitter
\* and without the time the requests take
RECURSIVE AttemptOffset(_)
AttemptOffset(n) ==
    IF n <= 1 THEN 0
    ELSE AttemptOffset(n - 1) + BASE_DELAY_MS * Pow(4, n - 2)

\* The POSTs of one sendWebhook call to subscription s, read as sub by the
\* lookup: one per attempt of the loop, each with the body and the headers
\* deliverWebhook builds for it when it is made: the signed headers of
\* buildWebhookHeaders at its own Date.now(), and X-Webhook-Id, the webhookId
\* the caller chose for the call.
RequestsOf(s, e, ev, sub, r, at, webhookId) ==
    {[subscription_id |-> s, event_id |-> e, event_type |-> ev, url |-> sub.url,
      attempt |-> n, body |-> PayloadString(ev), at |-> at + AttemptOffset(n),
      headers |-> Extend(buildWebhookHeaders(PayloadString(ev), sub.secret,
                                             at + AttemptOffset(n)),
                         "id", webhookId)] :
        n \in 1..r.attempts}

\* deliverToSubscriptions up to the insert of the log rows: the URLs are
\* validated, sendWebhookBatch delivers to the validated subscriptions (B:
\* the behaviours a destination may show over the attempts of one delivery)
\* and one log row per result is inserted.  With no validated subscription
\* it returns before delivering or logging anything.
Deliver(d, e, B) ==
    /\ e \in DOMAIN tasks[d]
    /\ tasks[d][e].pc = "deliver"
    /\ LET t == tasks[d][e]
           validated == ValidatedSubscriptions(t.matched)
       IN \E beh \in [validated -> B] :
             LET results == [s \in validated |-> sendWebhook(beh[s], MAX_RETRIES)]
                 pc == IF validated = {} THEN AfterDispatch(inv[d].kind, <<>>)
                       ELSE "record"
             IN /\ tasks' = TasksAfterStep(d, e, pc,
                               [t EXCEPT !.results = results, !.todo = validated])
                /\ inv' = InvAfterStep(d, e, pc)
                /\ requests' = requests \cup UNION
                      {RequestsOf(s, e, t.event, t.matched[s], results[s], now * 1000,
                                  BatchWebhookId(s)) :
                          s \in validated}
                /\ webhook_logs' = LogsAfterInsert(webhook_logs,
                      {LogRow(s, t.event, results[s]) : s \in validated}, DOMAIN subs)
    /\ UNCHANGED <<call, variable_conflict, now, trigger_func, txns, queue_seq, queue, subs,
                   notified, claims_since_pending, consecutive>>

\* update({failure_count: 0, ...}) after a successful delivery
SuccessUpdate(row) == [row EXCEPT !.failure_count = 0]

\* newFailureCount = (subscription?.failure_count || 0) + 1, from the row the
\* lookup of this dispatch read
NewFailureCount(read_failure_count, stored_failure_count) ==
    read_failure_count + 1

\* A breaker that also unsubscribes the destination from its events
FailureUpdateClearing(row, read_failure_count) ==
    [row EXCEPT !.failure_count = read_failure_count + 1, !.events = {}]

\* update(updateData) after a failed delivery
FailureUpdate(row, read_failure_count) ==
    LET n == NewFailureCount(read_failure_count, row.failure_count)
    IN IF n >= MAX_FAILURE_COUNT
       THEN [row EXCEPT !.failure_count = n, !.active = FALSE]
       ELSE [row EXCEPT !.failure_count = n]

\* One of the subscription updates of deliverToSubscriptions (they run under
\* Promise.all, each its own UPDATE ... WHERE id = s).
RecordOutcome(d, e, s) ==
    /\ e \in DOMAIN tasks[d]
    /\ tasks[d][e].pc = "record"
    /\ s \in tasks[d][e].todo
    /\ LET t == tasks[d][e]
           ok == t.results[s].success
       IN /\ subs' = IF s \notin DOMAIN subs THEN subs
                     ELSE [subs EXCEPT ![s] =
                             IF ok THEN SuccessUpdate(@)
                             ELSE FailureUpdate(@, t.matched[s].failure_count)]
          /\ consecutive' = IF s \notin DOMAIN subs THEN consecutive
                            ELSE [consecutive EXCEPT ![s] =
                                    IF ok THEN 0 ELSE Min(@ + 1, MAX_FAILURE_COUNT)]
          /\ LET pc == IF t.todo = {s} THEN AfterDispatch(inv[d].kind, t.results)
                       ELSE "record"
             IN /\ tasks' = TasksAfterStep(d, e, pc, [t EXCEPT !.todo = @ \ {s}])
                /\ inv' = InvAfterStep(d, e, pc)
    /\ UNCHANGED <<call, requests, variable_conflict, now, trigger_func, txns, queue_seq, queue, webhook_logs,
                   notified, claims_since_pending>>

\* supabase.rpc('complete_webhook_event', {event_id}); the UPDATE waits for a
\* row lock another transaction holds.
CompleteEvent(d, e) ==
    /\ e \in DOMAIN tasks[d]
    /\ tasks[d][e].pc = "complete"
    /\ ~LockedByOther(d, e)
    /\ queue' = IF e \in DOMAIN queue
                THEN [queue EXCEPT ![e] = CompletedRow(@)] ELSE queue
    /\ tasks' = TasksAfterSettle(d, e)
    /\ inv' = InvAfterSettle(d, e)
    /\ UNCHANGED <<call, requests, variable_conflict, now, trigger_func, txns, queue_seq, subs, webhook_logs,
                   notified, claims_since_pending, consecutive>>

\* fail_webhook_event, first statement: SELECT attempts, max_attempts INTO ...
FailBegin(d, e) ==
    /\ e \in DOMAIN tasks[d]
    /\ tasks[d][e].pc = "fail_begin"
    /\ e \in DOMAIN queue
    /\ tasks' = [tasks EXCEPT ![d][e] =
                    [@ EXCEPT !.pc = "fail_update",
                              !.f_attempts = queue[e].attempts,
                              !.f_max = queue[e].max_attempts,
                              !.f_now = now]]
    /\ UNCHANGED <<call, requests, variable_conflict, now, trigger_func, txns, queue_seq, queue, inv, subs,
                   webhook_logs, notified, claims_since_pending, consecutive>>

\* fail_webhook_event, second statement: the UPDATE of either branch
FailUpdate(d, e) ==
    /\ e \in DOMAIN tasks[d]
    /\ tasks[d][e].pc = "fail_update"
    /\ e \in DOMAIN queue
    /\ ~LockedByOther(d, e)
    /\ LET t == tasks[d][e]
       IN queue' = [queue EXCEPT ![e] =
             FailedRow(@, t.f_attempts, t.f_max, t.f_now, "Failed to fetch subscriptions")]
    /\ claims_since_pending' =
          IF queue'[e].status = "pending"
          THEN [claims_since_pending EXCEPT ![e] = 0] ELSE claims_since_pending
    /\ tasks' = TasksAfterSettle(d, e)
    /\ inv' = InvAfterSettle(d, e)
    /\ UNCHANGED <<call, requests, variable_conflict, now, trigger_func, txns, queue_seq, subs, webhook_logs,
                   notified, consecutive>>

\* WEBHOOK_SETUP.md, "Manual Queue Processing": the operator resets every
\* failed row to pending.
ManualReset ==
    /\ \E id \in DOMAIN queue : queue[id].status = "failed"
    /\ \A id \in DOMAIN queue : queue[id].attempts < MaxAttemptsSeen
    /\ \A id \in DOMAIN queue :
          queue[id].status = "failed" => \A d \in Dispatchers : id \notin inv[d].locked
    /\ queue' = [id \in DOMAIN queue |->
                    IF queue[id].status = "failed" THEN ResetRow(queue[id], now)
                    ELSE queue[id]]
    /\ claims_since_pending' =
          [id \in DOMAIN queue |->
              IF queue[id].status = "failed" THEN 0 ELSE claims_since_pending[id]]
    /\ UNCHANGED <<call, requests, variable_conflict, now, trigger_func, txns, queue_seq, inv, tasks, subs,
                   webhook_logs, notified, consecutive>>

(***************************************************************************)
(* Specifications                                                          *)
(***************************************************************************)
\* The event type of an INSERT on contacts, as the queue trigger builds it
ContactInsert == EventTypeOf("contacts", "INSERT")

\* Destination behaviours over the attempts of one delivery
AlwaysOk == [n \in 1..MAX_RETRIES |-> Http(200)]
Always500 == [n \in 1..MAX_RETRIES |-> Http(500)]
Always404 == [n \in 1..MAX_RETRIES |-> Http(404)]

\* The queue with the queue trigger on contacts and dispatcher instances
\* serving process_queue requests; no subscription is registered.
ClaimCycle(writes) ==
    \/ AttachQueueTrigger("contacts")
    \/ WriteBegin("contacts", "INSERT", writes)
    \/ \E x \in DOMAIN txns : WriteCommit(x)
    \/ \E d \in Dispatchers, b \in 1..MaxBatch : StartProcessQueue(d, b)
    \/ \E d \in Dispatchers : ClaimScan(d)
    \/ \E d \in Dispatchers : ClaimCommit(d)
    \/ \E d \in Dispatchers : ClaimRaises(d)
    \/ \E d \in Dispatchers, e \in DOMAIN queue : LookupFails(d, e)
    \/ \E d \in Dispatchers, e \in DOMAIN queue : LookupOk(d, e)
    \/ \E d \in Dispatchers, e \in DOMAIN queue : CompleteEvent(d, e)
    \/ \E d \in Dispatchers, e \in DOMAIN queue : FailBegin(d, e)
    \/ \E d \in Dispatchers, e \in DOMAIN queue : FailUpdate(d, e)

\* Two rows, a short clock, process_queue and queue_id requests
NextClaim ==
    \/ ClaimCycle(MaxWrites)
    \/ \E d \in Dispatchers, id \in DOMAIN queue : ProcessQueueItem(d, id)
    \/ Tick(MaxTime)

SpecClaim == Init /\ [][NextClaim]_vars

\* One row, process_queue requests only, the operator's reset, and a clock
\* that reaches every backoff of the row
NextRetry ==
    \/ ClaimCycle(MaxRetryWrites)
    \/ ManualReset
    \/ AwaitDue(MaxRetryTime)

SpecRetry == Init /\ [][NextRetry]_vars

\* A destination that answers 500 twice and 200 on the third attempt
RecoversOnThird == [n \in 1..MAX_RETRIES |-> IF n < MAX_RETRIES THEN Http(500) ELSE Http(200)]

DestinationBehaviours == {AlwaysOk, Always500, Always404, RecoversOnThird}

\* One queued event, subscriptions registered for it (one with a URL the
\* dispatcher refuses), process_queue requests that deliver it
NextDispatch ==
    \/ ClaimCycle(MaxRetryWrites)
    \/ \E url \in {ExampleUrl, LoopbackUrl} :
          InsertSubscription(url, {ContactInsert}, MaxDispatchSubs)
    \/ \E d \in Dispatchers, e \in DOMAIN queue :
          Deliver(d, e, DestinationBehaviours)
    \/ \E d \in Dispatchers, e \in DOMAIN queue, s \in DOMAIN subs :
          RecordOutcome(d, e, s)
    \/ AwaitDue(MaxDispatchTime)

SpecDispatch == Init /\ [][NextDispatch]_vars

\* An event name of a direct dispatch request
ContactCreated == <<"contact", "created">>

\* One subscription, direct dispatch requests served concurrently, the
\* owner's reactivation
NextBreaker ==
    \/ InsertSubscription(ExampleUrl, {ContactCreated}, MaxSubs)
    \/ \E s \in DOMAIN subs : UpdateSubscription(s, TRUE)
    \/ \E d \in Dispatchers : DispatchEvent(d, ContactCreated)
    \/ \E d \in Dispatchers : LookupFails(d, 0)
    \/ \E d \in Dispatchers : LookupOk(d, 0)
    \/ \E d \in Dispatchers : Deliver(d, 0, {AlwaysOk, Always500})
    \/ \E d \in Dispatchers, s \in DOMAIN subs : RecordOutcome(d, 0, s)

SpecBreaker == Init /\ [][NextBreaker]_vars

NextCapture ==
    \/ \E t \in Tables : AttachQueueTrigger(t)
    \/ \E t \in Tables, op \in Ops : WriteBegin(t, op, MaxWrites)
    \/ \E x \in DOMAIN txns : WriteCommit(x)
    \/ \E x \in DOMAIN txns : WriteRollback(x)

SpecCapture == Init /\ [][NextCapture]_vars

\* C1: every committed write on a watched table has exactly one row in
\* webhook_event_queue, and every row of the queue belongs to a committed
\* write.
C1_OneRowPerCommittedWrite ==
    /\ \A x \in DOMAIN txns :
          txns[x].state = "committed" =>
             Cardinality({q \in DOMAIN queue : queue[q].txid = x}) = 1
    /\ \A q \in DOMAIN queue :
          /\ queue[q].txid \in DOMAIN txns
          /\ txns[queue[q].txid].state = "committed"

(***************************************************************************)
(* Claiming                                                                *)
(***************************************************************************)
\* C2: claim_webhook_events calls that run concurrently select disjoint sets
\* of rows, and a row is returned by at most one claim call between two
\* moments at which it becomes pending (no row goes to two claimers for the
\* same attempt).
C2_ClaimsDisjoint ==
    /\ \A d1, d2 \in Dispatchers :
          (d1 # d2 /\ inv[d1].pc = "claim" /\ inv[d2].pc = "claim")
             => inv[d1].got \cap inv[d2].got = {}
    /\ \A id \in DOMAIN queue : claims_since_pending[id] <= 1

\* Two claim calls are open at once and each has selected a row
C2_TwoClaimersHoldRows ==
    /\ variable_conflict = "use_column"
    /\ \A d \in Dispatchers : inv[d].pc = "claim" /\ inv[d].got # {}

\* C3: no queue entry is being dispatched by two dispatcher invocations at
\* the same time, whether they reached it by a claim or by a queue_id
\* request.
C3_NoConcurrentDispatch ==
    \A e \in DOMAIN queue :
        Cardinality({d \in Dispatchers : e \in DOMAIN tasks[d]}) <= 1

\* C4: every queue entry has attempts <= max_attempts, also after the
\* operator's reset of failed entries.
C4_AttemptsWithinMax ==
    \A id \in DOMAIN queue : queue[id].attempts <= queue[id].max_attempts

\* C5: the UPDATE of fail_webhook_event never lowers next_attempt_at of the
\* entry.
C5_NextAttemptNeverDecreases ==
    [][\A d \in Dispatchers, e \in DOMAIN queue :
          FailUpdate(d, e) =>
             queue'[e].next_attempt_at >= queue[e].next_attempt_at]_vars

(***************************************************************************)
(* Dispatch of a claimed entry                                             *)
(***************************************************************************)
\* C6 (as stated): a dispatch cycle in which a destination answered 500 on
\* all three attempts does not close the entry; the cycle leaves it pending
\* or failed.
C6_Http500NotClosed ==
    [][\A d \in Dispatchers, e \in DOMAIN queue :
          (/\ e \in DOMAIN tasks[d]
           /\ \E s \in DOMAIN tasks[d][e].results :
                 /\ ~tasks[d][e].results[s].success
                 /\ tasks[d][e].results[s].status = 500
                 /\ tasks[d][e].results[s].attempts = MAX_RETRIES
           /\ e \notin DOMAIN tasks'[d])
          => queue'[e].status \in {"pending", "failed"}]_vars

\* C6 (amended): a dispatch cycle in which a destination answered 500 on all
\* three attempts ends by marking the entry completed; the queue does not
\* reschedule it.
C6_Http500Completes ==
    [][\A d \in Dispatchers, e \in DOMAIN queue :
          (/\ e \in DOMAIN tasks[d]
           /\ \E s \in DOMAIN tasks[d][e].results :
                 /\ ~tasks[d][e].results[s].success
                 /\ tasks[d][e].results[s].status = 500
                 /\ tasks[d][e].results[s].attempts = MAX_RETRIES
           /\ e \notin DOMAIN tasks'[d])
          => /\ queue'[e].status = "completed"
             /\ queue'[e].attempts = queue[e].attempts
             /\ queue'[e].next_attempt_at = queue[e].next_attempt_at]_vars

\* An entry is completed after a delivery of its event that was answered
\* 500 on each of the three attempts and was recorded as a failure
C6_ClosedAfter500 ==
    \E e \in DOMAIN queue :
        /\ queue[e].status = "completed"
        /\ \E r \in requests :
              /\ r.event_id = e
              /\ r.attempt = MAX_RETRIES
              /\ subs[r.subscription_id].failure_count = 1

\* C7: once the fan-out of a claimed entry has finished the dispatch goes on
\* to complete_webhook_event whatever the delivery results are, and that
\* call marks the entry completed; the dispatch goes to fail_webhook_event
\* only from a subscription lookup that returned an error.
C7_CompletedWhateverOutcomes ==
    [][\A d \in Dispatchers, e \in DOMAIN queue :
          /\ (/\ e \in DOMAIN tasks[d]
              /\ tasks[d][e].pc \in {"deliver", "record"}
              /\ (e \in DOMAIN tasks'[d] => tasks'[d][e].pc \notin {"deliver", "record"}))
             => (e \in DOMAIN tasks'[d] /\ tasks'[d][e].pc = "complete")
          /\ (/\ e \in DOMAIN tasks[d]
              /\ tasks[d][e].pc = "complete"
              /\ e \notin DOMAIN tasks'[d])
             => queue'[e].status = "completed"
          /\ (/\ e \in DOMAIN tasks'[d]
              /\ tasks'[d][e].pc = "fail_begin"
              /\ (e \in DOMAIN tasks[d] => tasks[d][e].pc # "fail_begin"))
             => (/\ e \in DOMAIN tasks[d]
                 /\ tasks[d][e].pc = "lookup"
                 /\ LookupFails(d, e))]_vars

\* An entry is completed although every delivery of its fan-out failed, to
\* two subscriptions
C7_CompletedAllFailed ==
    \E e \in DOMAIN queue :
        /\ queue[e].status = "completed"
        /\ Cardinality({r.subscription_id : r \in requests}) = 2
        /\ \A r \in requests :
              r.event_id = e /\ subs[r.subscription_id].failure_count = 1

(***************************************************************************)
(* Failure counter and circuit breaker                                     *)
(***************************************************************************)
\* C8: a subscription with 10 failed deliveries in a row is inactive, and a
\* subscription with fewer failures since the last success (or
\* reactivation) is active.
C8_BreakerAtTenConsecutive ==
    \A s \in DOMAIN subs :
        /\ consecutive[s] >= MAX_FAILURE_COUNT => ~subs[s].active
        /\ consecutive[s] < MAX_FAILURE_COUNT => subs[s].active

\* C9: after k failed deliveries recorded since the last success or
\* reactivation the stored failure_count is k, also when the outcomes are
\* recorded by concurrent dispatches.
C9_CounterCountsFailures ==
    \A s \in DOMAIN subs :
        consecutive[s] < MAX_FAILURE_COUNT => subs[s].failure_count = consecutive[s]

\* C10: recording the outcome of one delivery changes failure_count of its
\* subscription by exactly +1 when the delivery failed and sets it to 0 when
\* it succeeded, and touches no other subscription.
C10_OneOutcomeOneStep ==
    [][\A d \in Dispatchers, s \in DOMAIN subs :
          RecordOutcome(d, 0, s) =>
             /\ subs'[s].failure_count =
                   IF tasks[d][0].results[s].success THEN 0
                   ELSE subs[s].failure_count + 1
             /\ \A s2 \in DOMAIN subs \ {s} : subs'[s2] = subs[s2]]_vars

(***************************************************************************)
(* Signature round trip                                                    *)
(***************************************************************************)
\* Payloads, and secrets (subscription secrets are never empty:
\* CONSTRAINT valid_secret)
Payloads == {str \in StringsUpTo(MaxStrLen) : WellFormed(str)}
Secrets == Payloads \ {<<>>}

\* A party signs (payload, secret); the signature is presented with or
\* without the prefix to a verifier holding (v_payload, v_secret).
InitSign ==
    /\ InitSystem
    /\ variable_conflict = "error"
    /\ call \in [fn : {"verifySignature"}, payload : Payloads, secret : Secrets,
                 v_payload : Payloads, v_secret : Secrets,
                 prefixed : BOOLEAN, done : {FALSE}, valid : {FALSE}]

VerifySignatureCall ==
    /\ call.fn = "verifySignature"
    /\ ~call.done
    /\ LET signed == signPayload(call.payload, call.secret)
           presented == IF call.prefixed THEN signed
                        ELSE SubSeq(signed, Len(SIG_PREFIX) + 1, Len(signed))
       IN call' = [call EXCEPT !.done = TRUE,
                      !.valid = verifySignature(call.v_payload, presented, call.v_secret)]
    /\ UNCHANGED <<requests, variable_conflict, now, trigger_func, txns,
                   queue_seq, queue, inv, tasks, subs, webhook_logs, notified,
                   claims_since_pending, consecutive>>

SpecSign == InitSign /\ [][VerifySignatureCall]_vars

StampTimes ==
    {t \in {k * StampStep + o : k \in 0..MaxStamp, o \in {-1, 0, 1}} : t >= 0}

\* The verifier's clock
VerifyTime == 6 * StampStep

\* Timestamp headers a request may carry: absent, a decimal number, a
\* number followed by other characters, no number at all
TimestampHeaders ==
    {<<>>, <<"x">>} \cup {DecimalOf(t) : t \in StampTimes}
                    \cup {DecimalOf(t) \o <<"x">> : t \in StampTimes}

\* Requests: the one buildWebhookHeaders makes at some time, and requests
\* with any timestamp header whose signature is absent, made over that
\* header with the verifier's secret, or made with another secret
InitVerify ==
    /\ InitSystem
    /\ variable_conflict = "error"
    /\ \E payload \in {<<"a">>}, secret \in {<<"a">>}, other \in {<<"b">>} :
          \/ \E t \in StampTimes :
                call = [fn |-> "verifyWebhookRequest", payload |-> payload,
                        secret |-> secret, built |-> TRUE,
                        headers |-> buildWebhookHeaders(payload, secret, t),
                        done |-> FALSE, result |-> "none"]
          \/ \E ts \in TimestampHeaders :
                \E sig \in {<<>>, signPayload(SignedPayload(ts, payload), secret),
                            signPayload(SignedPayload(ts, payload), other)} :
                   call = [fn |-> "verifyWebhookRequest", payload |-> payload,
                           secret |-> secret, built |-> FALSE,
                           headers |-> [signature |-> sig, timestamp |-> ts],
                           done |-> FALSE, result |-> "none"]

VerifyRequestCall ==
    /\ call.fn = "verifyWebhookRequest"
    /\ ~call.done
    /\ call' = [call EXCEPT !.done = TRUE,
                   !.result = verifyWebhookRequest(call.payload, call.headers,
                                                   call.secret, VerifyTime)]
    /\ UNCHANGED <<requests, variable_conflict, now, trigger_func, txns,
                   queue_seq, queue, inv, tasks, subs, webhook_logs, notified,
                   claims_since_pending, consecutive>>

SpecVerify == InitVerify /\ [][VerifyRequestCall]_vars

\* C12: verifyWebhookRequest rejects a request whose timestamp is more than
\* 5 minutes old or more than 1 minute ahead, a request without signature
\* or timestamp and a request whose timestamp is not a number, and accepts
\* what buildWebhookHeaders made within the window.
C12_ReplayProtection ==
    (call.fn = "verifyWebhookRequest" /\ call.done) =>
        LET ts == call.headers.timestamp
            numeric == ts # <<>> /\ \A i \in 1..Len(ts) : IsDigit(ts[i])
            inWindow == /\ VerifyTime - parseInt(ts) <= MAX_AGE_MS
                        /\ parseInt(ts) <= VerifyTime + FUTURE_SKEW_MS
        IN /\ (numeric /\ ~inWindow) => call.result # "valid"
           /\ (call.headers.signature = <<>> \/ ts = <<>> \/ ~numeric)
                 => call.result # "valid"
           /\ (call.built /\ inWindow) => call.result = "valid"

(***************************************************************************)
(* Destination URL policy                                                  *)
(***************************************************************************)
\* URLs as new URL() parses them: http://127.0.0.1/x and
\* https://example.com/webhook are LoopbackUrl and ExampleUrl
PlainHttpUrl == [protocol |-> "http:", hostname |-> <<"example", "com">>]
SubdomainUrl == [protocol |-> "https:", hostname |-> <<"hooks", "example", "com">>]
FtpUrl == [protocol |-> "ftp:", hostname |-> <<"example", "com">>]

\* Destinations inside the host or its network: http://127.0.0.1/, the
\* metadata address 169.254.169.254, localhost, 10.1.2.3, 172.16.0.1,
\* 192.168.1.1, 169.254.1.1, metadata.google.internal, http://[::1]/,
\* https://[fc00::1]/ and https://[fe80::1]/
InternalUrls ==
    {LoopbackUrl,
     [protocol |-> "https:", hostname |-> <<"169", "254", "169", "254">>],
     [protocol |-> "http:", hostname |-> <<"localhost">>],
     [protocol |-> "https:", hostname |-> <<"10", "1", "2", "3">>],
     [protocol |-> "https:", hostname |-> <<"172", "16", "0", "1">>],
     [protocol |-> "https:", hostname |-> <<"192", "168", "1", "1">>],
     [protocol |-> "https:", hostname |-> <<"169", "254", "1", "1">>],
     [protocol |-> "http:", hostname |-> <<"metadata", "google", "internal">>],
     [protocol |-> "http:", hostname |-> <<"[::1]">>],
     [protocol |-> "https:", hostname |-> <<"[fc00:", ":1]">>],
     [protocol |-> "https:", hostname |-> <<"[fe80:", ":1]">>]}

\* The destinations tried: the internal ones, example.com and its variants,
\* https://notexample.com/, https://other.org/, a file: URL, a string that
\* new URL() rejects, and the public address 172.32.0.1
Urls ==
    InternalUrls \cup
    {ExampleUrl, PlainHttpUrl, SubdomainUrl, FtpUrl,
     [protocol |-> "https:", hostname |-> <<"notexample", "com">>],
     [protocol |-> "https:", hostname |-> <<"other", "org">>],
     [protocol |-> "file:", hostname |-> <<>>],
     [protocol |-> "", hostname |-> <<>>],
     [protocol |-> "https:", hostname |-> <<"172", "32", "0", "1">>]}

\* WEBHOOK_URL_ALLOWLIST: unset, or "example.com"
Allowlists == {{}, {<<"example", "com">>}}

InitUrl ==
    /\ InitSystem
    /\ variable_conflict = "error"
    /\ call \in [fn : {"validateWebhookUrl"}, url : Urls, allowlist : Allowlists,
                 production : BOOLEAN, done : {FALSE}, valid : {FALSE}]

ValidateUrlCall ==
    /\ call.fn = "validateWebhookUrl"
    /\ ~call.done
    /\ call' = [call EXCEPT !.done = TRUE,
                   !.valid = validateWebhookUrlIn(call.url, call.allowlist,
                                                  call.production)]
    /\ UNCHANGED <<requests, variable_conflict, now, trigger_func, txns,
                   queue_seq, queue, inv, tasks, subs, webhook_logs, notified,
                   claims_since_pending, consecutive>>

SpecUrl == InitUrl /\ [][ValidateUrlCall]_vars

\* C13: validateWebhookUrl rejects every URL with another scheme than http
\* or https, every URL whose host is a loopback, private or link-local
\* address (IPv4 or IPv6) or a blocked metadata hostname and, with an
\* allow-list, every URL whose host is neither a listed domain nor a
\* subdomain of one; it rejects http://127.0.0.1/x,
\* https://169.254.169.254/ and http://localhost:9/ and accepts
\* https://example.com/webhook.
C13_UrlPolicy ==
    (call.fn = "validateWebhookUrl" /\ call.done) =>
        LET internal == InternalUrls
            listed == {ExampleUrl, PlainHttpUrl, SubdomainUrl, FtpUrl}
        IN /\ call.url.protocol \notin {"http:", "https:"} => ~call.valid
           /\ call.url \in internal => ~call.valid
           /\ (call.allowlist # {} /\ call.url \notin listed) => ~call.valid
           /\ (call.url = ExampleUrl /\ call.allowlist = {} ) => call.valid

C15_RefusedIsLogged ==
    \A d \in Dispatchers : \A e \in DOMAIN tasks[d] :
        tasks[d][e].pc \in {"record", "complete"} =>
            \A s \in DOMAIN tasks[d][e].matched :
                ~validateWebhookUrl(tasks[d][e].matched[s].url) =>
                    \E row \in webhook_logs :
                        /\ row.subscription_id = s
                        /\ row.event_type = tasks[d][e].event
                        /\ ~row.success
                        /\ row.error # "none"

(***************************************************************************)
(* Outcome classification of sendWebhook                                   *)
(***************************************************************************)
\* await fetch(url, ...) rejects with a TypeError when the request meets a
\* network error (connection refused, DNS failure): deliverWebhook rethrows
\* everything but its own AbortError.
NetworkError == Throws("TypeError")

\* response.status of the answers a destination gives
Statuses == {200, 204, 301, 400, 404, 408, 429, 500, 502, 503, 504}

\* What an attempt can meet
Outcomes == {Http(st) : st \in Statuses} \cup {Timeout, NetworkError, Throws("Error")}

NoResult == [success |-> FALSE, status |-> 0, errorCode |-> "none", attempts |-> 0]

\* A call sendWebhook(url, payload, secret, {maxRetries}) to a destination
\* that shows behaviour[n] to attempt n
InitSend ==
    /\ InitSystem
    /\ variable_conflict = "error"
    /\ call \in [fn : {"sendWebhook"}, behaviour : [1..MAX_RETRIES -> Outcomes],
                  maxRetries : 1..MAX_RETRIES, done : {FALSE}, result : {NoResult}]

SendWebhookCall ==
    /\ call.fn = "sendWebhook"
    /\ ~call.done
    /\ call' = [call EXCEPT !.done = TRUE,
                            !.result = sendWebhook(call.behaviour, call.maxRetries)]
    /\ UNCHANGED <<requests, variable_conflict, now, trigger_func, txns, queue_seq, queue, inv,
                   tasks, subs, webhook_logs, notified, claims_since_pending, consecutive>>

SpecSend == InitSend /\ [][SendWebhookCall]_vars

\* C16: in a finished sendWebhook call the returned attempts count n is
\* between 1 and maxRetries and attempts 1..n were made; an attempt answered
\* 2xx is the last one and the result is a success; an attempt answered 408,
\* 429, 500, 502, 503 or 504 is followed by another one while attempts remain;
\* an attempt answered any other non-2xx status is the last one, the result is
\* a failure with that status, and attempts is the number of that attempt.
C16_StatusClassification ==
    (call.fn = "sendWebhook" /\ call.done) =>
        LET n == call.result.attempts
        IN /\ n \in 1..call.maxRetries
           /\ \A k \in 1..n :
                 LET b == call.behaviour[k]
                 IN b.kind = "http" =>
                      /\ (b.status >= 200 /\ b.status < 300) =>
                            (n = k /\ call.result.success /\ call.result.status = b.status)
                      /\ b.status \in {408, 429, 500, 502, 503, 504} =>
                            /\ k < call.maxRetries => n > k
                            /\ k = n => ~call.result.success
                      /\ (b.status \notin 200..299 /\
                          b.status \notin {408, 429, 500, 502, 503, 504}) =>
                            (n = k /\ ~call.result.success /\ call.result.status = b.status)

\* C16 witness: a 500 was retried, the 404 that answered the second attempt
\* ended the call with attempts = 2 although a third attempt remained.
C16_RetriedThenTerminal ==
    /\ call.fn = "sendWebhook" /\ call.done
    /\ call.maxRetries = 3
    /\ call.behaviour[1] = Http(500) /\ call.behaviour[2] = Http(404)
    /\ call.behaviour[3] = Http(200)
    /\ call.result.attempts = 2 /\ ~call.result.success /\ call.result.status = 404

\* C17: in a finished sendWebhook call, an attempt that met a network error
\* or the per-attempt timeout is followed by another attempt while attempts
\* remain: the call gives up on either only at attempt maxRetries.
C17_NetworkErrorRetriedLikeTimeout ==
    (call.fn = "sendWebhook" /\ call.done) =>
        \A k \in 1..call.result.attempts :
            (call.behaviour[k] \in {NetworkError, Timeout} /\ k < call.maxRetries)
                => call.result.attempts > k

(***************************************************************************)
(* Event names                                                             *)
(***************************************************************************)
\* VALID_EVENTS of webhook-admin: what a subscription can register for
VALID_EVENTS ==
    {<<entity, action>> :
        entity \in {"contact", "deal", "company", "task", "note", "activity"},
        action \in {"created", "updated", "deleted"}}

\* C18: the envelope queued for a committed insert, update or delete on
\* contacts has table 'contacts', action 'created', 'updated' or 'deleted'
\* respectively and event 'contact.<action>', an event type a subscription can
\* register for.
C18_ContactEnvelopeNames ==
    \A id \in DOMAIN queue :
        LET w == txns[queue[id].txid]
            action == CASE w.op = "INSERT" -> "created"
                        [] w.op = "UPDATE" -> "updated"
                        [] w.op = "DELETE" -> "deleted"
        IN w.table = "contacts" =>
              /\ queue[id].payload.table = "contacts"
              /\ queue[id].payload.action = action
              /\ queue[id].payload.event = <<"contact", action>>
              /\ queue[id].event_type = queue[id].payload.event
              /\ queue[id].payload.event \in VALID_EVENTS

(***************************************************************************)
(* End to end under fair scheduling                                        *)
(***************************************************************************)
\* What one dispatcher instance does next in a process_queue request, the
\* subscription lookup succeeding
DispatcherStep(d, B) ==
    \/ ClaimScan(d)
    \/ ClaimCommit(d)
    \/ ClaimRaises(d)
    \/ \E e \in DOMAIN queue : LookupOk(d, e)
    \/ \E e \in DOMAIN queue : Deliver(d, e, B)
    \/ \E e \in DOMAIN queue, s \in DOMAIN subs : RecordOutcome(d, e, s)
    \/ \E e \in DOMAIN queue : CompleteEvent(d, e)

\* The periodic POST {action: 'process_queue'}
Poll == \E d \in Dispatchers, b \in 1..MaxBatch : StartProcessQueue(d, b)

\* An owner registers a subscription to https://example.com/webhook, a
\* contact is inserted afterwards, the operator may have attached the queue
\* trigger, the queue is polled and the destination answers 200.
NextEndToEnd ==
    \/ \E events \in {{ContactCreated}, {ContactCreated, ContactInsert}} :
          InsertSubscription(ExampleUrl, events, MaxSubs)
    \/ AttachQueueTrigger("contacts")
    \/ DOMAIN subs # {} /\ WriteBegin("contacts", "INSERT", MaxRetryWrites)
    \/ \E x \in DOMAIN txns : WriteCommit(x)
    \/ Poll
    \/ \E d \in Dispatchers : DispatcherStep(d, {AlwaysOk})

\* The edge runtime runs every started request to its end, the polling goes
\* on, and a transaction that was begun commits.
FairEndToEnd ==
    /\ WF_vars(Poll)
    /\ \A d \in Dispatchers : WF_vars(DispatcherStep(d, {AlwaysOk}))
    /\ WF_vars(\E x \in DOMAIN txns : WriteCommit(x))

SpecEndToEnd == Init /\ [][NextEndToEnd]_vars /\ FairEndToEnd

\* C19: after a committed insert on contacts with an active subscription for
\* contact.created whose destination answers 2xx, eventually the destination
\* has received a request whose signature verifies with the subscription's
\* secret, a success row exists in webhook_logs for the subscription and its
\* failure_count is 0.
C19_InsertIsDelivered ==
    \A s \in 1..MaxSubs :
        (/\ s \in DOMAIN subs
         /\ subs[s].active
         /\ ContactCreated \in subs[s].events
         /\ \E x \in DOMAIN txns :
               /\ txns[x].table = "contacts" /\ txns[x].op = "INSERT"
               /\ txns[x].state = "committed")
        ~> (/\ s \in DOMAIN subs
            /\ \E r \in requests :
                  /\ r.subscription_id = s
                  /\ verifyWebhookRequest(r.body, r.headers, subs[s].secret, r.at)
                        = "valid"
            /\ \E row \in webhook_logs : row.subscription_id = s /\ row.success
            /\ subs[s].failure_count = 0)

(***************************************************************************)
(* At-least-once                                                           *)
(***************************************************************************)
\* What one dispatcher instance does next when the subscription lookup may
\* fail: the catch block of processQueue calls fail_webhook_event
RetryingStep(d, B) ==
    \/ DispatcherStep(d, B)
    \/ \E e \in DOMAIN queue : LookupFails(d, e)
    \/ \E e \in DOMAIN queue : FailBegin(d, e)
    \/ \E e \in DOMAIN queue : FailUpdate(d, e)

\* A subscription for the event the queue trigger names (its URL may be one
\* the dispatcher refuses), one insert on contacts, polling, destinations of
\* every behaviour, lookups that may fail, and a clock that reaches every
\* backoff.
NextAtLeastOnce ==
    \/ \E url \in {ExampleUrl, LoopbackUrl} :
          InsertSubscription(url, {ContactInsert}, MaxSubs)
    \/ AttachQueueTrigger("contacts")
    \/ WriteBegin("contacts", "INSERT", MaxRetryWrites)
    \/ \E x \in DOMAIN txns : WriteCommit(x)
    \/ Poll
    \/ \E d \in Dispatchers : RetryingStep(d, DestinationBehaviours)
    \/ AwaitDue(MaxRetryTime)

\* Dispatcher runs are scheduled fairly and none crashes: the polling goes
\* on, every started request runs to its end, time passes and an open write
\* commits.
FairAtLeastOnce ==
    /\ WF_vars(Poll)
    /\ \A d \in Dispatchers : WF_vars(RetryingStep(d, DestinationBehaviours))
    /\ WF_vars(AwaitDue(MaxRetryTime))
    /\ WF_vars(\E x \in DOMAIN txns : WriteCommit(x))

SpecAtLeastOnce == Init /\ [][NextAtLeastOnce]_vars /\ FairAtLeastOnce

\* C20: every queue entry eventually reaches completed or failed, and the
\* step that marks an entry completed is taken only after a request went to
\* every subscription that was active, registered for the event and had a
\* valid URL when the entry was dispatched.
C20_AtLeastOnce ==
    /\ \A id \in 1..MaxRetryWrites :
          (id \in DOMAIN queue) ~>
              (id \in DOMAIN queue /\ queue[id].status \in {"completed", "failed"})
    /\ [][\A d \in Dispatchers : \A e \in DOMAIN tasks[d] \cap DOMAIN queue :
              (queue[e].status # "completed" /\ queue'[e].status = "completed"
               /\ e \notin DOMAIN tasks'[d])
              => \A s \in DOMAIN tasks[d][e].matched :
                    validateWebhookUrl(tasks[d][e].matched[s].url) =>
                        \E r \in requests : r.subscription_id = s /\ r.event_id = e]_vars

(***************************************************************************)
(* Administration API: webhook-admin                                       *)
(***************************************************************************)
\* The select lists of the handlers
LIST_COLUMNS ==
    {"id", "url", "events", "name", "description", "active", "failure_count",
     "last_triggered_at", "last_success_at", "last_failure_at", "created_at",
     "updated_at"}
CREATE_COLUMNS ==
    {"id", "url", "events", "name", "description", "active", "failure_count",
     "created_at", "updated_at"}
LOG_COLUMNS ==
    {"id", "event_type", "event_id", "success", "attempts", "response_status",
     "error_message", "duration_ms", "created_at"}

\* A select list that returns the whole row
ALL_COLUMNS == LIST_COLUMNS \cup {"secret"}

\* The select list of getSubscription
GET_COLUMNS == LIST_COLUMNS

\* The select list of updateSubscription
UPDATE_COLUMNS == LIST_COLUMNS

\* .select(columns) on a row: the columns of the list that the row has
Select(row, columns) == [c \in columns \cap DOMAIN row |-> row[c]]

\* jsonResponse / errorResponse of an admin handler
AdminResponse(op, status, body) ==
    [fn |-> "admin", op |-> op, status |-> status, body |-> body]

\* validateUrl of webhook-admin
validateUrl(url) == url.protocol \in {"http:", "https:"}

\* validateEvents
validateEvents(events) == events # {} /\ events \subseteq VALID_EVENTS

\* POST /webhook-admin {url, events, secret?}: secret is the one given or the
\* one generateSecret() draws
CreateSubscription(url, events, secret, limit) ==
    /\ Cardinality(DOMAIN subs) < limit
    /\ IF validateUrl(url) /\ validateEvents(events)
       THEN LET s == Cardinality(DOMAIN subs) + 1
                row == [url |-> url, secret |-> secret, events |-> events,
                        active |-> TRUE, failure_count |-> 0]
            IN /\ subs' = Extend(subs, s, row)
               /\ consecutive' = Extend(consecutive, s, 0)
               /\ call' = AdminResponse("create", 201,
                              (s :> Extend(Select(row, CREATE_COLUMNS), "secret", secret)))
       ELSE /\ call' = AdminResponse("create", 400, <<>>)
            /\ UNCHANGED <<subs, consecutive>>
    /\ UNCHANGED <<requests, variable_conflict, now, trigger_func, txns, queue_seq, queue, inv,
                   tasks, webhook_logs, notified, claims_since_pending>>

\* GET /webhook-admin?active=...: filter is "null" when the parameter is absent
ListSubscriptions(filter) ==
    /\ LET S == {s \in DOMAIN subs :
                    filter = "null" \/ subs[s].active = (filter = "true")}
       IN call' = AdminResponse("list", 200,
                                [s \in S |-> Select(subs[s], LIST_COLUMNS)])
    /\ UNCHANGED <<requests, variable_conflict, now, trigger_func, txns, queue_seq, queue, inv,
                   tasks, subs, webhook_logs, notified, claims_since_pending, consecutive>>

\* GET /webhook-admin/{s}
GetSubscription(s) ==
    /\ call' = IF s \in DOMAIN subs
               THEN AdminResponse("get", 200, (s :> Select(subs[s], GET_COLUMNS)))
               ELSE AdminResponse("get", 404, <<>>)
    /\ UNCHANGED <<requests, variable_conflict, now, trigger_func, txns, queue_seq, queue, inv,
                   tasks, subs, webhook_logs, notified, claims_since_pending, consecutive>>

\* updateData of updateSubscription: the fields the request gives (input is a
\* record with some of url, events, active, secret), and failure_count = 0
\* when it gives active = true
UpdateData(input) ==
    IF "active" \in DOMAIN input /\ input.active = TRUE
    THEN Extend(input, "failure_count", 0)
    ELSE input

\* .update(updateData) on a row
Updated(row, updateData) ==
    [c \in DOMAIN row |-> IF c \in DOMAIN updateData THEN updateData[c] ELSE row[c]]

\* What validateUpdateInput accepts
validateUpdateInput(input) ==
    /\ DOMAIN input # {}
    /\ "url" \in DOMAIN input => validateUrl(input.url)
    /\ "events" \in DOMAIN input => validateEvents(input.events)

\* PATCH /webhook-admin/{s} input
PatchSubscription(s, input) ==
    /\ IF ~validateUpdateInput(input)
       THEN /\ call' = AdminResponse("update", 400, <<>>)
            /\ UNCHANGED <<subs, consecutive>>
       ELSE IF s \notin DOMAIN subs
       THEN /\ call' = AdminResponse("update", 404, <<>>)
            /\ UNCHANGED <<subs, consecutive>>
       ELSE /\ subs' = [subs EXCEPT ![s] = Updated(@, UpdateData(input))]
            /\ consecutive' =
                  IF "failure_count" \in DOMAIN UpdateData(input)
                  THEN [consecutive EXCEPT ![s] = 0] ELSE consecutive
            /\ call' = AdminResponse("update", 200,
                                     (s :> Select(subs'[s], UPDATE_COLUMNS)))
    /\ UNCHANGED <<requests, variable_conflict, now, trigger_func, txns, queue_seq, queue, inv,
                   tasks, webhook_logs, notified, claims_since_pending>>

\* GET /webhook-admin/{s}/logs
GetSubscriptionLogs(s) ==
    /\ call' = IF s \in DOMAIN subs
               THEN AdminResponse("logs", 200,
                       {Select(row, LOG_COLUMNS) :
                           row \in {r \in webhook_logs : r.subscription_id = s}})
               ELSE AdminResponse("logs", 404, {})
    /\ UNCHANGED <<requests, variable_conflict, now, trigger_func, txns, queue_seq, queue, inv,
                   tasks, subs, webhook_logs, notified, claims_since_pending, consecutive>>

\* The event of the test payload
TestPing == <<"test", "ping">>

\* POST /webhook-admin/{s}/test: sendWebhookOnce to the subscription's URL;
\* b is what the destination does.  response_preview is the body the
\* destination answered with, which it made from the request it received.
TestSubscription(s, b) ==
    /\ IF s \in DOMAIN subs
       THEN LET r == sendWebhook((1 :> b), 1)
            IN /\ requests' = requests \cup
                     RequestsOf(s, 0, TestPing, subs[s], r, now * 1000, RandomUuid)
               /\ call' = AdminResponse("test", 200,
                     [success |-> r.success, status |-> r.status,
                      error |-> r.errorCode,
                      response_preview |-> IF b.kind = "http"
                                           THEN PayloadString(TestPing) ELSE <<>>])
       ELSE /\ call' = AdminResponse("test", 404, <<>>)
            /\ UNCHANGED requests
    /\ UNCHANGED <<variable_conflict, now, trigger_func, txns, queue_seq, queue, inv,
                   tasks, subs, webhook_logs, notified, claims_since_pending, consecutive>>

\* Inputs of the admin requests
AdminUrls == {ExampleUrl, FtpUrl, LoopbackUrl}
AdminEvents == {{ContactCreated}, {ContactInsert}}
UpdateInputs ==
    {<<>>} \cup [{"active"} -> BOOLEAN] \cup [{"secret"} -> SubscriptionSecrets]
        \cup [{"url"} -> AdminUrls] \cup [{"events"} -> AdminEvents]

\* The owner's requests to the administration API, and direct dispatches
\* that write the delivery log
NextAdmin ==
    \/ \E url \in AdminUrls, events \in AdminEvents, secret \in SubscriptionSecrets :
          CreateSubscription(url, events, secret, MaxAdminSubs)
    \/ \E filter \in {"null", "true", "false"} : ListSubscriptions(filter)
    \/ \E s \in 1..MaxAdminSubs : GetSubscription(s)
    \/ \E s \in 1..MaxAdminSubs, input \in UpdateInputs : PatchSubscription(s, input)
    \/ \E s \in 1..MaxAdminSubs : GetSubscriptionLogs(s)
    \/ \E s \in 1..MaxAdminSubs, b \in {Http(200), Http(500)} : TestSubscription(s, b)
    \/ DispatchEvent(1, ContactCreated)
    \/ LookupOk(1, 0)
    \/ Deliver(1, 0, {AlwaysOk})
    \/ \E s \in DOMAIN subs : RecordOutcome(1, 0, s)

SpecAdmin == Init /\ [][NextAdmin]_vars

\* C21: the response of a successful create carries the secret of the
\* subscription it created, and no response of list, get, update, logs or
\* test carries a secret column, for any subscription.
C21_SecretOnlyOnCreate ==
    call.fn = "admin" =>
        CASE call.op = "create" ->
                call.status = 201 =>
                    \A s \in DOMAIN call.body :
                        /\ "secret" \in DOMAIN call.body[s]
                        /\ call.body[s].secret = subs[s].secret
          [] call.op \in {"list", "get", "update"} ->
                \A s \in DOMAIN call.body : "secret" \notin DOMAIN call.body[s]
          [] call.op = "logs" ->
                \A row \in call.body : "secret" \notin DOMAIN row
          [] call.op = "test" ->
                "secret" \notin DOMAIN call.body

\* C21 witness: a get of an existing subscription has answered with the row
\* and without its secret
C21_GetAnswered ==
    /\ call.fn = "admin" /\ call.op = "get" /\ call.status = 200
    /\ \E s \in DOMAIN call.body :
          /\ s \in DOMAIN subs
          /\ call.body[s].url = subs[s].url
          /\ "secret" \in DOMAIN subs[s]

(***************************************************************************)
(* What dispatch writes to the registry                                    *)
(***************************************************************************)
\* C22: a step that keeps the set of subscriptions (every step but the
\* owner's insert) deletes none, leaves url, secret and events of every
\* subscription as they were, and changes a subscription (its failure_count
\* or active) only if it is a delivery target of a dispatch that is recording
\* its outcomes: a matched subscription with a valid URL to which a request
\* for the event was made.
C22_DispatchWritesCounterOnly ==
    [][/\ DOMAIN subs \subseteq DOMAIN subs'
       /\ DOMAIN subs' = DOMAIN subs =>
             \A s \in DOMAIN subs :
                /\ subs'[s].url = subs[s].url
                /\ subs'[s].secret = subs[s].secret
                /\ subs'[s].events = subs[s].events
                /\ subs'[s] # subs[s] =>
                      \E d \in Dispatchers : \E e \in DOMAIN tasks[d] :
                         /\ tasks[d][e].pc = "record"
                         /\ s \in tasks[d][e].todo
                         /\ validateWebhookUrl(subs[s].url)
                         /\ \E r \in requests :
                               r.subscription_id = s /\ r.event_id = e]_vars

\* C22 witness: a failed delivery was recorded for one subscription while
\* another one, matched by the same event but refused for its URL, exists
C22_RecordedNextToRefused ==
    \E s1, s2 \in DOMAIN subs :
        /\ subs[s1].url = ExampleUrl /\ subs[s1].failure_count = 1
        /\ subs[s2].url = LoopbackUrl /\ subs[s2].failure_count = 0
        /\ subs[s1].events = subs[s2].events
        /\ \E r \in requests : r.subscription_id = s1

(***************************************************************************)
(* Exhaustion                                                              *)
(***************************************************************************)
\* One row whose dispatch may fail until its attempts are used up,
\* process_queue and queue_id requests, no operator reset
NextExhaust ==
    \/ ClaimCycle(MaxRetryWrites)
    \/ \E d \in Dispatchers, id \in DOMAIN queue : ProcessQueueItem(d, id)
    \/ AwaitDue(MaxRetryTime)

SpecExhaust == Init /\ [][NextExhaust]_vars

\* C23: without the operator's reset, a queue entry in status failed is still
\* failed after every step of the dispatchers.
C23_FailedStaysFailed ==
    [][\A id \in DOMAIN queue :
          queue[id].status = "failed" => queue'[id].status = "failed"]_vars

(***************************************************************************)
(* Backoff                                                                 *)
(***************************************************************************)
\* A backoff whose jitter is the whole delay
WideJitterBackoff(attempt, baseDelayMs, maxDelayMs, k) ==
    LET exponentialDelay == baseDelayMs * Pow(4, attempt - 1)
    IN Min(exponentialDelay * 4 * JitterSteps
              + exponentialDelay * 4 * (2 * k - JitterSteps),
           maxDelayMs * 4 * JitterSteps)

\* calculateBackoff(attempt, baseDelayMs, maxDelayMs) when Math.random()
\* gives k / JitterSteps.  The delay is a fraction of a millisecond: the
\* value here is the delay in units of 1 / (4 * JitterSteps) ms, which is a
\* whole number.
calculateBackoff(attempt, baseDelayMs, maxDelayMs, k) ==
    LET exponentialDelay == baseDelayMs * Pow(4, attempt - 1)
        \* exponentialDelay * 0.25 * (Math.random() * 2 - 1), times 4 * JitterSteps
        jitter == exponentialDelay * (2 * k - JitterSteps)
    IN Min(exponentialDelay * 4 * JitterSteps + jitter,
           maxDelayMs * 4 * JitterSteps)

\* The backoff after attempt n and after attempt n + 1, each with its own
\* draw of Math.random() (below 1), for the client and for the queue
InitBackoff ==
    /\ InitSystem
    /\ variable_conflict = "error"
    /\ call \in [fn : {"calculateBackoff"}, attempt : 1..MaxBackoffAttempt,
                  k : 0..(JitterSteps - 1), k_next : 0..(JitterSteps - 1),
                  done : {FALSE}, delay : {0}, delay_next : {0},
                  seconds : {0}, seconds_next : {0}]

CalculateBackoffCall ==
    /\ call.fn = "calculateBackoff"
    /\ ~call.done
    /\ call' = [call EXCEPT
          !.done = TRUE,
          !.delay = calculateBackoff(call.attempt, BASE_DELAY_MS, MAX_DELAY_MS, call.k),
          !.delay_next = calculateBackoff(call.attempt + 1, BASE_DELAY_MS, MAX_DELAY_MS,
                                          call.k_next),
          !.seconds = BackoffSeconds(call.attempt),
          !.seconds_next = BackoffSeconds(call.attempt + 1)]
    /\ UNCHANGED <<requests, variable_conflict, now, trigger_func, txns, queue_seq, queue, inv,
                   tasks, subs, webhook_logs, notified, claims_since_pending, consecutive>>

SpecBackoff == InitBackoff /\ [][CalculateBackoffCall]_vars

\* C24: the delay of the delivery client after attempt n + 1 is at least the
\* delay after attempt n whatever the two jitter draws, neither exceeds the
\* cap, and the reschedule delay of the queue after n + 1 attempts is at least
\* the one after n attempts.
C24_BackoffMonotone ==
    (call.fn = "calculateBackoff" /\ call.done) =>
        /\ call.delay_next >= call.delay
        /\ call.delay_next <= MAX_DELAY_MS * 4 * JitterSteps
        /\ call.seconds_next >= call.seconds

\* C24 witness: the first delay with the largest jitter against the second
\* with the smallest, and both below the cap
C24_ExtremeDraws ==
    /\ call.fn = "calculateBackoff" /\ call.done
    /\ call.attempt = 1 /\ call.k = JitterSteps - 1 /\ call.k_next = 0
    /\ call.delay > BASE_DELAY_MS * 4 * JitterSteps
    /\ call.delay_next < 4 * BASE_DELAY_MS * 4 * JitterSteps
    /\ call.delay_next > call.delay

(***************************************************************************)
(* One call of claim_webhook_events                                        *)
(***************************************************************************)
\* The time of the call, and a next_attempt_at that is later
ClaimCallTime == 1
LaterTime == ClaimCallTime + BACKOFF_BASE

\* Rows the queue may hold when the call starts: pending (due or rescheduled
\* to a later time) or being processed, created at different times
QueueRowsAtCall ==
    {[NewQueueRow("contacts", "INSERT", 0, created) EXCEPT
         !.status = status, !.attempts = attempts, !.next_attempt_at = due] :
       created \in 0..ClaimCallTime, status \in {"pending", "processing"},
       attempts \in {1}, due \in {ClaimCallTime, LaterTime}}

\* The queue trigger has queued MaxClaimRows committed inserts on contacts;
\* instance 2 is in a claim of its own and holds the locks of rows it has
\* selected; instance 1 is idle and will serve the call.
InitClaimCall ==
    /\ call = NoCall
    /\ requests = {}
    /\ variable_conflict \in VariableConflicts
    /\ now = ClaimCallTime
    /\ trigger_func = [t \in Tables |->
                          IF t = "contacts" THEN "queue_webhook_event"
                          ELSE InstalledTriggerFunction(t)]
    /\ queue_seq = MaxClaimRows
    /\ \E rows \in [1..MaxClaimRows -> QueueRowsAtCall] :
          /\ queue = [id \in 1..MaxClaimRows |-> [rows[id] EXCEPT !.txid = id]]
          /\ txns = [id \in 1..MaxClaimRows |->
                        [table |-> "contacts", op |-> "INSERT", state |-> "committed",
                         func |-> "queue_webhook_event", row |-> id,
                         started |-> rows[id].created_at]]
          /\ \E held \in SUBSET {id \in 1..MaxClaimRows :
                                    Claimable(rows[id], ClaimCallTime)} :
                /\ variable_conflict = "error" => held = {}
                /\ inv = [d \in Dispatchers |->
                            IF d = 2 /\ held # {}
                            THEN [kind |-> "process_queue", pc |-> "claim",
                                  batch |-> MaxClaimRows, txn_now |-> ClaimCallTime,
                                  cand |-> <<>>, got |-> held, locked |-> held]
                            ELSE IdleInv]
    /\ tasks = [d \in Dispatchers |-> <<>>]
    /\ subs = <<>>
    /\ webhook_logs = {}
    /\ notified = {}
    /\ claims_since_pending = [id \in 1..MaxClaimRows |-> 0]
    /\ consecutive = <<>>

\* claim_webhook_events(b) by instance 1, from its start to its end
NextClaimCall ==
    \/ \E b \in 1..MaxBatch : StartProcessQueue(1, b)
    \/ ClaimScan(1)
    \/ ClaimCommit(1)
    \/ ClaimRaises(1)

SpecClaimCall == InitClaimCall /\ [][NextClaimCall]_vars

\* C25: the step that ends a call claim_webhook_events(batch_size) returns
\* min(batch_size, number of eligible entries) entries, where an entry is
\* eligible when it is pending with next_attempt_at <= now and not locked by
\* another claimer: entries that are locked, not yet due or being processed
\* do not block it.  The returned entries are eligible and no eligible entry
\* left behind is older than a returned one; each returned entry becomes
\* processing with attempts raised by 1, and every other entry is unchanged.
C25_ClaimReturnsOldestEligible ==
    [][(inv[1].pc = "claim" /\ inv'[1].pc # "claim") =>
          LET returned == DOMAIN tasks'[1]
              eligible == {id \in DOMAIN queue :
                              /\ Claimable(queue[id], inv[1].txn_now)
                              /\ ~LockedByOther(1, id)}
          IN /\ Cardinality(returned) = Min(inv[1].batch, Cardinality(eligible))
             /\ returned \subseteq eligible
             /\ \A r \in returned : \A e \in eligible \ returned :
                    queue[r].created_at <= queue[e].created_at
             /\ \A r \in returned :
                    queue'[r] = [queue[r] EXCEPT !.status = "processing",
                                                !.attempts = queue[r].attempts + 1]
             /\ \A id \in DOMAIN queue \ returned : queue'[id] = queue[id]]_vars

(***************************************************************************)
(* One call of fail_webhook_event                                          *)
(***************************************************************************)
\* C26: the UPDATE of fail_webhook_event(e, msg) sets an entry with
\* attempts >= max_attempts to failed, and an entry with attempts <
\* max_attempts to pending with next_attempt_at = now + backoff(attempts),
\* now being the time of the call; in both cases it stores msg as the error,
\* leaves attempts (and every other column) unchanged and touches no other
\* entry.
C26_FailSetsFailedOrReschedules ==
    [][\A d \in Dispatchers : \A e \in DOMAIN queue :
          (/\ e \in DOMAIN tasks[d]
           /\ tasks[d][e].pc = "fail_update"
           /\ e \notin DOMAIN tasks'[d]) =>
             /\ queue[e].attempts >= queue[e].max_attempts =>
                   queue'[e] = [queue[e] EXCEPT
                                   !.status = "failed",
                                   !.error_message = "Failed to fetch subscriptions"]
             /\ queue[e].attempts < queue[e].max_attempts =>
                   queue'[e] = [queue[e] EXCEPT
                                   !.status = "pending",
                                   !.error_message = "Failed to fetch subscriptions",
                                   !.next_attempt_at =
                                       tasks[d][e].f_now + BackoffSeconds(queue[e].attempts)]
             /\ \A o \in DOMAIN queue \ {e} : queue'[o] = queue[o]]_vars

(***************************************************************************)
(* The queue-level reschedule delay                                        *)
(***************************************************************************)
\* C27: when fail_webhook_event reschedules an entry whose attempts count is
\* n >= 1, the delay it adds to now is 4^(n-1) seconds: 1 s after the first
\* attempt, 4 s after the second, 16 s after the third.
C27_DelayIsFourToTheNMinusOne ==
    [][\A d \in Dispatchers : \A e \in DOMAIN queue :
          (/\ e \in DOMAIN tasks[d]
           /\ tasks[d][e].pc = "fail_update"
           /\ e \notin DOMAIN tasks'[d]
           /\ tasks[d][e].f_attempts >= 1
           /\ queue'[e].status = "pending") =>
             queue'[e].next_attempt_at =
                 tasks[d][e].f_now + Pow(BACKOFF_BASE, tasks[d][e].f_attempts - 1)]_vars

(***************************************************************************)
(* The retry loop of sendWebhook, step by step                             *)
(***************************************************************************)
\* lastResponse after attempt n met b
ResponseOf(b, n) ==
    [success |-> Success(b),
     status |-> b.status,
     errorCode |-> CASE b.kind = "http" -> "none"
                     [] b.kind = "timeout" -> "TIMEOUT"
                     [] OTHER -> b.name,
     attempts |-> n]

\* A loop that sleeps after every retryable failure
SleepsAfterEvery(attempt, maxRetries) == TRUE

\* "Don't delay after last attempt": if (attempt < opts.maxRetries)
SleepsAfter(attempt, maxRetries) == attempt < maxRetries

\* sendWebhook has been called and is before the first test of its loop;
\* fetches counts the HTTP attempts made and slept holds the attempts after
\* which the loop has slept.
InitLoop ==
    /\ InitSystem
    /\ variable_conflict = "error"
    /\ call \in [fn : {"sendWebhook"}, behaviour : [1..MAX_RETRIES -> Outcomes],
                  maxRetries : 1..MAX_RETRIES, pc : {"while"}, attempt : {0},
                  fetches : {0}, slept : {{}}, result : {NoResult}]

\* One pass of the loop body: attempt++, deliverWebhook, and the return, the
\* sleep or the next test that follows
LoopAttempt ==
    /\ call.pc = "while"
    /\ call.attempt < call.maxRetries
    /\ LET n == call.attempt + 1
           b == call.behaviour[n]
       IN call' = [call EXCEPT
             !.attempt = n,
             !.fetches = @ + 1,
             !.result = ResponseOf(b, n),
             !.pc = IF Success(b) \/ ~RetryAfter(b) THEN "returned"
                    ELSE IF SleepsAfter(n, call.maxRetries) THEN "sleep"
                    ELSE "while"]
    /\ UNCHANGED <<requests, variable_conflict, now, trigger_func, txns, queue_seq, queue, inv,
                   tasks, subs, webhook_logs, notified, claims_since_pending, consecutive>>

\* await sleep(delay)
LoopSleep ==
    /\ call.pc = "sleep"
    /\ call' = [call EXCEPT !.slept = @ \cup {call.attempt}, !.pc = "while"]
    /\ UNCHANGED <<requests, variable_conflict, now, trigger_func, txns, queue_seq, queue, inv,
                   tasks, subs, webhook_logs, notified, claims_since_pending, consecutive>>

\* The loop test fails: return lastResponse
LoopExit ==
    /\ call.pc = "while"
    /\ call.attempt >= call.maxRetries
    /\ call' = [call EXCEPT !.pc = "returned"]
    /\ UNCHANGED <<requests, variable_conflict, now, trigger_func, txns, queue_seq, queue, inv,
                   tasks, subs, webhook_logs, notified, claims_since_pending, consecutive>>

NextLoop == LoopAttempt \/ LoopSleep \/ LoopExit

SpecLoop == InitLoop /\ [][NextLoop]_vars

\* C28: sendWebhook never makes more than maxRetries HTTP attempts and can
\* always take its next step until it has returned; when it has returned, the
\* attempts value of the result is the number of HTTP attempts made and lies
\* between 1 and maxRetries, every attempt before the last one was a
\* retryable failure, the last one was a success, a terminal failure or
\* attempt number maxRetries, and the loop slept after each attempt but the
\* last one.  The result is the one of the operator sendWebhook.
C28_AtMostMaxRetriesAttempts ==
    /\ call.fetches <= call.maxRetries
    /\ call.pc # "returned" => ENABLED NextLoop
    /\ call.pc = "returned" =>
          LET n == call.result.attempts
          IN /\ n = call.fetches
             /\ 1 <= n /\ n <= call.maxRetries
             /\ \A m \in 1..(n - 1) :
                    ~Success(call.behaviour[m]) /\ RetryAfter(call.behaviour[m])
             /\ \/ Success(call.behaviour[n])
                \/ ~RetryAfter(call.behaviour[n])
                \/ n = call.maxRetries
             /\ call.slept = 1..(n - 1)
             /\ call.result = sendWebhook(call.behaviour, call.maxRetries)

\* Three attempts that each met a retryable failure, with a sleep after the
\* first and the second
C28_ExhaustedAfterTwoSleeps ==
    /\ call.pc = "returned"
    /\ call.maxRetries = MAX_RETRIES
    /\ call.fetches = MAX_RETRIES
    /\ ~call.result.success
    /\ RetryAfter(call.behaviour[MAX_RETRIES])
    /\ call.slept = 1..(MAX_RETRIES - 1)

(***************************************************************************)
(* sendWebhookBatch                                                        *)
(***************************************************************************)
\* What an attempt of a batch delivery can meet
BatchOutcomes == {Http(200), Http(404), Http(500), Timeout, NetworkError, Throws("Error")}

\* A sendWebhook call that has not started
NotStarted == [pc |-> "none", attempt |-> 0, fetches |-> 0, result |-> NoResult]

NoBatchResult == [total |-> 0, successful |-> 0, failed |-> 0, results |-> <<>>]

\* A batch that calls sendWebhook for subscription j when the calls for the
\* subscriptions before it have returned
StartsAfterEarlier(sends, j) == \A i \in 1..(j - 1) : sends[i].pc = "returned"

\* subscriptions.map(async ...) calls sendWebhook for every subscription
\* before Promise.all awaits any of them: the call for subscription j runs
\* whatever the state of the others
MayRun(sends, j) == TRUE

\* sendWebhookBatch(subscriptions, payload, {maxRetries}) has been called with
\* count subscriptions; behaviours[j][n] is what attempt n to subscription j
\* meets
InitBatch ==
    /\ InitSystem
    /\ variable_conflict = "error"
    /\ \E count \in 0..MaxBatchSubs :
          call \in [fn : {"sendWebhookBatch"}, count : {count},
                    behaviours : [1..count -> [1..MaxBatchRetries -> BatchOutcomes]],
                    maxRetries : 1..MaxBatchRetries, pc : {"called"},
                    sends : {[j \in 1..count |-> NotStarted]},
                    out : {NoBatchResult}]

\* subscriptions.map(...): every sendWebhook call is made and runs up to its
\* first await
BatchStart ==
    /\ call.pc = "called"
    /\ call' = [call EXCEPT !.pc = "awaiting",
                            !.sends = [j \in 1..call.count |->
                                          [NotStarted EXCEPT !.pc = "while"]]]
    /\ UNCHANGED <<requests, variable_conflict, now, trigger_func, txns, queue_seq, queue, inv,
                   tasks, subs, webhook_logs, notified, claims_since_pending, consecutive>>

\* One pass of the loop of the sendWebhook call for subscription j
SendAttempt(j) ==
    /\ call.pc = "awaiting"
    /\ j \in 1..call.count
    /\ MayRun(call.sends, j)
    /\ call.sends[j].pc = "while"
    /\ call.sends[j].attempt < call.maxRetries
    /\ LET n == call.sends[j].attempt + 1
           b == call.behaviours[j][n]
       IN call' = [call EXCEPT !.sends[j] =
             [pc |-> IF Success(b) \/ ~RetryAfter(b) THEN "returned"
                     ELSE IF SleepsAfter(n, call.maxRetries) THEN "sleep"
                     ELSE "while",
              attempt |-> n,
              fetches |-> call.sends[j].fetches + 1,
              result |-> ResponseOf(b, n)]]
    /\ UNCHANGED <<requests, variable_conflict, now, trigger_func, txns, queue_seq, queue, inv,
                   tasks, subs, webhook_logs, notified, claims_since_pending, consecutive>>

\* The sleep of the sendWebhook call for subscription j ends
SendSleep(j) ==
    /\ call.pc = "awaiting"
    /\ j \in 1..call.count
    /\ call.sends[j].pc = "sleep"
    /\ call' = [call EXCEPT !.sends[j].pc = "while"]
    /\ UNCHANGED <<requests, variable_conflict, now, trigger_func, txns, queue_seq, queue, inv,
                   tasks, subs, webhook_logs, notified, claims_since_pending, consecutive>>

\* The loop test of the sendWebhook call for subscription j fails
SendExit(j) ==
    /\ call.pc = "awaiting"
    /\ j \in 1..call.count
    /\ call.sends[j].pc = "while"
    /\ call.sends[j].attempt >= call.maxRetries
    /\ call' = [call EXCEPT !.sends[j].pc = "returned"]
    /\ UNCHANGED <<requests, variable_conflict, now, trigger_func, txns, queue_seq, queue, inv,
                   tasks, subs, webhook_logs, notified, claims_since_pending, consecutive>>

\* Promise.all resolves when every call has returned; the counts are taken
\* from the results
BatchReturn ==
    /\ call.pc = "awaiting"
    /\ \A j \in 1..call.count : call.sends[j].pc = "returned"
    /\ LET results == [j \in 1..call.count |->
                          [subscriptionId |-> j, response |-> call.sends[j].result]]
           successful == Cardinality({j \in 1..call.count : results[j].response.success})
       IN call' = [call EXCEPT !.pc = "returned",
                               !.out = [total |-> Len(results),
                                        successful |-> successful,
                                        failed |-> Len(results) - successful,
                                        results |-> results]]
    /\ UNCHANGED <<requests, variable_conflict, now, trigger_func, txns, queue_seq, queue, inv,
                   tasks, subs, webhook_logs, notified, claims_since_pending, consecutive>>

NextBatch ==
    \/ BatchStart
    \/ \E j \in 1..MaxBatchSubs : SendAttempt(j) \/ SendSleep(j) \/ SendExit(j)
    \/ BatchReturn

SpecBatch == InitBatch /\ [][NextBatch]_vars

\* C29: once sendWebhookBatch has made its calls, the first HTTP attempt to
\* a subscription can be made whatever the state of the deliveries to the
\* other subscriptions (failed, sleeping before a retry, waiting for a
\* timeout), and the batch can always take a next step until it has returned;
\* when it has returned, results holds exactly one entry per subscription, in
\* the order given, entry j being the result of sendWebhook for subscription j
\* alone after at least one HTTP attempt, and total = successful + failed =
\* the number of subscriptions.
C29_OneResultPerSubscription ==
    /\ call.pc = "awaiting" =>
          \A j \in 1..call.count :
             call.sends[j].fetches = 0 => ENABLED SendAttempt(j)
    /\ call.pc # "returned" => ENABLED NextBatch
    /\ call.pc = "returned" =>
          /\ call.out.total = call.count
          /\ call.out.successful + call.out.failed = call.count
          /\ call.out.successful =
                Cardinality({j \in 1..call.count :
                    sendWebhook(call.behaviours[j], call.maxRetries).success})
          /\ DOMAIN call.out.results = 1..call.count
          /\ \A j \in 1..call.count :
                /\ call.out.results[j].subscriptionId = j
                /\ call.out.results[j].response =
                      sendWebhook(call.behaviours[j], call.maxRetries)
                /\ call.sends[j].fetches >= 1

\* The last subscriber has answered 200 while the delivery to the first,
\* whose fetch threw, sleeps before its retry
C29_DeliveredNextToSleeping ==
    /\ call.fn = "sendWebhookBatch"
    /\ call.pc = "awaiting"
    /\ call.count = MaxBatchSubs
    /\ call.sends[MaxBatchSubs].pc = "returned"
    /\ call.sends[MaxBatchSubs].result.success
    /\ call.sends[1].pc = "sleep"
    /\ call.behaviours[1][1] = Throws("Error")

(***************************************************************************)
(* Reactivation of a suspended subscription                                *)
(***************************************************************************)
\* PATCH /webhook-admin/{id} with the body {"active": true}
Reactivation == [active |-> TRUE]

\* Dispatches of contact.created to a failing or answering destination, and
\* the owner who reactivates the subscription when it has been suspended;
\* call then holds the answer to the PATCH.
NextReactivate ==
    \/ InsertSubscription(ExampleUrl, {ContactCreated}, MaxSubs)
    \/ \E s \in DOMAIN subs : ~subs[s].active /\ PatchSubscription(s, Reactivation)
    \/ \E d \in Dispatchers : DispatchEvent(d, ContactCreated)
    \/ \E d \in Dispatchers : LookupOk(d, 0)
    \/ \E d \in Dispatchers : Deliver(d, 0, {AlwaysOk, Always500})
    \/ \E d \in Dispatchers, s \in DOMAIN subs : RecordOutcome(d, 0, s)

SpecReactivate == Init /\ [][NextReactivate]_vars

\* C30: the update that sets a suspended subscription active again writes
\* failure_count = 0 with it, and a subscription that has been reactivated is
\* suspended again only by a step that records the 10th failure in a row
\* since the reactivation (or since a later success).
C30_ReactivationResetsCounter ==
    [][\A s \in DOMAIN subs :
          /\ (~subs[s].active /\ subs'[s].active) => subs'[s].failure_count = 0
          /\ (/\ call.fn = "admin"
              /\ call.status = 200
              /\ s \in DOMAIN call.body
              /\ subs[s].active
              /\ ~subs'[s].active) => consecutive'[s] >= MAX_FAILURE_COUNT]_vars

(***************************************************************************)
(* Retention: cleanup_webhook_queue                                        *)
(***************************************************************************)
\* (retention_days || ' days')::interval, in seconds of the database clock
SecondsPerDay == 86400

\* A cleanup that looks at the age only
OlderThan(row, txn_now, retention_days) ==
    row.created_at < txn_now - retention_days * SecondsPerDay

\* WHERE status IN ('completed', 'failed')
\*   AND created_at < NOW() - (retention_days || ' days')::interval
Purged(row, txn_now, retention_days) ==
    /\ row.status \in {"completed", "failed"}
    /\ row.created_at < txn_now - retention_days * SecondsPerDay

\* Rows the queue may hold when the retention job runs: of every status,
\* created on different days
QueueRowsAtCleanup ==
    {[NewQueueRow("contacts", "INSERT", 0, created * SecondsPerDay) EXCEPT
         !.status = status,
         !.attempts = IF status = "pending" THEN 0 ELSE 1] :
       created \in 0..MaxRetentionDays,
       status \in {"pending", "processing", "completed", "failed"}}

\* The queue holds MaxCleanupRows entries of committed inserts on contacts;
\* the clock stands at the start of a day or one second after it.
InitCleanup ==
    /\ call = NoCall
    /\ requests = {}
    /\ variable_conflict = "error"
    /\ now \in {MaxRetentionDays * SecondsPerDay, MaxRetentionDays * SecondsPerDay + 1}
    /\ trigger_func = [t \in Tables |->
                          IF t = "contacts" THEN "queue_webhook_event"
                          ELSE InstalledTriggerFunction(t)]
    /\ queue_seq = MaxCleanupRows
    /\ \E rows \in [1..MaxCleanupRows -> QueueRowsAtCleanup] :
          /\ queue = [id \in 1..MaxCleanupRows |-> [rows[id] EXCEPT !.txid = id]]
          /\ txns = [id \in 1..MaxCleanupRows |->
                        [table |-> "contacts", op |-> "INSERT", state |-> "committed",
                         func |-> "queue_webhook_event", row |-> id,
                         started |-> rows[id].created_at]]
    /\ inv = [d \in Dispatchers |-> IdleInv]
    /\ tasks = [d \in Dispatchers |-> <<>>]
    /\ subs = <<>>
    /\ webhook_logs = {}
    /\ notified = {}
    /\ claims_since_pending = [id \in 1..MaxCleanupRows |-> 0]
    /\ consecutive = <<>>

\* SELECT cleanup_webhook_queue(retention_days): one DELETE ... RETURNING id,
\* whose rows are counted
CleanupWebhookQueue(retention_days) ==
    /\ LET deleted == {id \in DOMAIN queue : Purged(queue[id], now, retention_days)}
       IN /\ queue' = Restrict(queue, DOMAIN queue \ deleted)
          /\ claims_since_pending' =
                Restrict(claims_since_pending, DOMAIN claims_since_pending \ deleted)
          /\ call' = [fn |-> "cleanup_webhook_queue", retention_days |-> retention_days,
                      deleted_count |-> Cardinality(deleted)]
    /\ UNCHANGED <<requests, variable_conflict, now, trigger_func, txns, queue_seq, inv,
                   tasks, subs, webhook_logs, notified, consecutive>>

SpecCleanup ==
    InitCleanup /\ [][\E days \in 0..MaxRetentionDays : CleanupWebhookQueue(days)]_vars

\* C31: a call cleanup_webhook_queue(retention_days) deletes exactly the
\* entries that are completed or failed and were created more than
\* retention_days days before now, returns their number, deletes no pending
\* or processing entry and leaves every entry it keeps as it was.
C31_CleanupDeletesOldTerminal ==
    [][LET days == call'.retention_days
           old == {id \in DOMAIN queue :
                      /\ queue[id].status \in {"completed", "failed"}
                      /\ now - queue[id].created_at > days * SecondsPerDay}
       IN /\ DOMAIN queue' = DOMAIN queue \ old
          /\ call'.deleted_count = Cardinality(old)
          /\ \A id \in DOMAIN queue :
                queue[id].status \in {"pending", "processing"} => id \in DOMAIN queue'
          /\ \A id \in DOMAIN queue' : queue'[id] = queue[id]]_vars

\* A call with one day of retention has deleted an old failed entry and kept
\* an entry of the same age that is still being processed and a completed
\* entry that is exactly one day old
C31_OldFailedGoneOldProcessingKept ==
    /\ call.fn = "cleanup_webhook_queue"
    /\ call.retention_days = 1
    /\ call.deleted_count = 1
    /\ now = MaxRetentionDays * SecondsPerDay
    /\ \E id \in DOMAIN queue :
          queue[id].status = "processing" /\ queue[id].created_at = 0
    /\ \E id \in DOMAIN queue :
          queue[id].status = "completed" /\ queue[id].created_at = now - SecondsPerDay

(***************************************************************************)
(* The delivery log                                                        *)
(***************************************************************************)
\* C32: the step in which deliverToSubscriptions delivers an event and
\* inserts its log rows keeps every row webhook_logs already held, and after
\* it webhook_logs holds, for each subscription delivered to, a row with that
\* subscription's id, the event type and the attempts, response status,
\* success flag and error of the delivery result.
C32_OneLogRowPerDelivery ==
    [][\A d \in Dispatchers : \A e \in DOMAIN tasks[d] :
          (/\ tasks[d][e].pc = "deliver"
           /\ e \in DOMAIN tasks'[d]
           /\ tasks'[d][e].pc = "record") =>
             /\ webhook_logs \subseteq webhook_logs'
             /\ \A s \in DOMAIN tasks'[d][e].results :
                   \E row \in webhook_logs' :
                      /\ row.subscription_id = s
                      /\ row.event_type = tasks[d][e].event
                      /\ row.attempts = tasks'[d][e].results[s].attempts
                      /\ row.response_status = tasks'[d][e].results[s].status
                      /\ row.success = tasks'[d][e].results[s].success
                      /\ row.error = tasks'[d][e].results[s].errorCode]_vars

(***************************************************************************)
(* What is signed is what is sent                                          *)
(***************************************************************************)
\* C33: every request the dispatcher has sent carries as X-Webhook-Timestamp
\* the time at which it was made and as X-Webhook-Signature "sha256=" and the
\* hex HMAC-SHA256, under the secret of its subscription, of that timestamp,
\* a dot and the body of the request; two attempts of one delivery carry the
\* same body and the same X-Webhook-Id, and a later attempt a later timestamp.
C33_SignedBodyIsSentBody ==
    /\ \A r \in requests :
          /\ r.headers.timestamp = DecimalOf(r.at)
          /\ r.headers.signature =
                SIG_PREFIX \o encodeSignature(
                    Hmac(Utf8(subs[r.subscription_id].secret),
                         Utf8(r.headers.timestamp \o <<".">> \o r.body)))
    /\ \A r1, r2 \in requests :
          (/\ r1.subscription_id = r2.subscription_id
           /\ r1.event_id = r2.event_id
           /\ r1.at - AttemptOffset(r1.attempt) = r2.at - AttemptOffset(r2.attempt)) =>
             /\ r1.body = r2.body
             /\ r1.headers.id = r2.headers.id
             /\ r1.attempt < r2.attempt =>
                   parseInt(r1.headers.timestamp) < parseInt(r2.headers.timestamp)

\* A delivery that took three attempts, sent under the two secrets
C33_ThreeAttemptsTwoSecrets ==
    /\ \E r \in requests : r.attempt = MAX_RETRIES
    /\ \E r1, r2 \in requests :
          /\ r1.attempt = 1 /\ r2.attempt = 2
          /\ r1.subscription_id = r2.subscription_id
          /\ r1.headers.signature # r2.headers.signature
    /\ {subs[r.subscription_id].secret : r \in requests} = SubscriptionSecrets

(***************************************************************************)
(* A dispatcher that stops between claim and completion                    *)
(***************************************************************************)
\* The instance serving a process_queue request is stopped after its claim
\* has committed and before the complete_webhook_event or fail_webhook_event
\* calls of its entries have: the dispatches it was running are gone (a call
\* in progress is rolled back).
Crash(d) ==
    /\ inv[d].kind = "process_queue"
    /\ inv[d].pc = "dispatch"
    /\ DOMAIN tasks[d] # {}
    /\ tasks' = [tasks EXCEPT ![d] = <<>>]
    /\ inv' = [inv EXCEPT ![d] = IdleInv]
    /\ UNCHANGED <<call, requests, variable_conflict, now, trigger_func, txns, queue_seq, queue,
                   subs, webhook_logs, notified, claims_since_pending, consecutive>>

\* process_queue requests, instances that stop, the clock and the operator's
\* reset of failed entries
NextCrash ==
    \/ ClaimCycle(MaxRetryWrites)
    \/ \E d \in Dispatchers : Crash(d)
    \/ ManualReset
    \/ Tick(MaxTime)
    \/ AwaitDue(MaxRetryTime)

SpecCrash == Init /\ [][NextCrash]_vars

RowColumns == {"name", "email"}
ColumnValues == {"a", "b", "null"}

\* SQL NULL / JSON null where a row is expected; OLD of an INSERT and NEW of
\* a DELETE are unassigned
JsonNull == [c \in {} |-> "null"]

\* SELECT array_agg(key) FROM (SELECT key FROM jsonb_each(to_jsonb(NEW))
\* EXCEPT SELECT key FROM jsonb_each(to_jsonb(OLD))
\*        WHERE to_jsonb(NEW) -> key = to_jsonb(OLD) -> key): as a set
ChangedFields(old, new) ==
    DOMAIN new \ {key \in DOMAIN old : key \in DOMAIN new /\ new[key] = old[key]}

\* record_data and old_data, the same CASE TG_OP in both trigger functions
RecordData(op, old, new) == IF op = "DELETE" THEN old ELSE new
OldData(op, old, new) == IF op = "UPDATE" THEN old ELSE JsonNull

\* metadata of notify_webhook: changed_fields is added for an UPDATE when
\* array_agg returned a value, that is when some column changed
NotifyMetadata(op, old, new) ==
    IF op = "UPDATE" /\ ChangedFields(old, new) # {}
    THEN [keys |-> {"triggered_at", "transaction_id", "schema", "trigger_name",
                    "changed_fields"},
          changed_fields |-> ChangedFields(old, new)]
    ELSE [keys |-> {"triggered_at", "transaction_id", "schema", "trigger_name"},
          changed_fields |-> {}]

\* metadata of queue_webhook_event: jsonb_build_object('triggered_at', NOW(),
\* 'transaction_id', txid_current()); its variable changed_fields is declared
\* and never assigned
QueueMetadata(op, old, new) ==
    [keys |-> {"triggered_at", "transaction_id"}, changed_fields |-> {}]

\* The payload a trigger function builds for one written row
TriggerPayload(func, t, op, old, new) ==
    [event |-> EventTypeOf(t, op), table |-> t, action |-> Lower(op),
     data |-> RecordData(op, old, new),
     old_data |-> OldData(op, old, new),
     metadata |-> IF func = "queue_webhook_event" THEN QueueMetadata(op, old, new)
                  ELSE NotifyMetadata(op, old, new)]

NoPayload ==
    [event |-> <<>>, table |-> "", action |-> "", data |-> JsonNull,
     old_data |-> JsonNull, metadata |-> [keys |-> {}, changed_fields |-> {}]]

\* A row trigger is about to run func for a written row
InitPayload ==
    /\ InitSystem
    /\ variable_conflict = "error"
    /\ \E op \in Ops :
          call \in [fn : {"trigger"}, func : TriggerFunctions, table : {"contacts", "deals"},
                    op : {op},
                    old : IF op = "INSERT" THEN {JsonNull}
                          ELSE [RowColumns -> ColumnValues],
                    new : IF op = "DELETE" THEN {JsonNull}
                          ELSE [RowColumns -> ColumnValues],
                    done : {FALSE}, payload : {NoPayload}]

TriggerCall ==
    /\ call.fn = "trigger"
    /\ ~call.done
    /\ call' = [call EXCEPT
          !.done = TRUE,
          !.payload = TriggerPayload(call.func, call.table, call.op, call.old, call.new)]
    /\ UNCHANGED <<requests, variable_conflict, now, trigger_func, txns, queue_seq, queue, inv,
                   tasks, subs, webhook_logs, notified, claims_since_pending, consecutive>>

SpecPayload == InitPayload /\ [][TriggerCall]_vars

\* C36: the envelope queue_webhook_event has built for an UPDATE carries in
\* metadata.changed_fields exactly the columns whose value differs between
\* the old and the new row; the envelope of an INSERT or a DELETE carries no
\* changed_fields and old_data is null.
C36_ChangedFieldsOfQueuedEnvelope ==
    (call.fn = "trigger" /\ call.done /\ call.func = "queue_webhook_event") =>
        /\ call.op = "UPDATE" =>
              /\ "changed_fields" \in call.payload.metadata.keys
              /\ call.payload.metadata.changed_fields =
                    {c \in RowColumns : call.old[c] # call.new[c]}
        /\ call.op # "UPDATE" =>
              /\ "changed_fields" \notin call.payload.metadata.keys
              /\ call.payload.old_data = JsonNull

(***************************************************************************)
(* The per-attempt timeout of deliverWebhook                               *)
(***************************************************************************)
\* The clock of one attempt advances in thirds of the timeout
TickMs == TIMEOUT_MS \div 3

\* deliverWebhook has armed its timer, setTimeout(() => controller.abort(),
\* timeoutMs), and called fetch; the destination sends its response headers
\* headers_after ms after the request and the end of the body body_after ms
\* after the headers.
InitAttempt ==
    /\ InitSystem
    /\ variable_conflict = "error"
    /\ call \in [fn : {"deliverWebhook"},
                 headers_after : {k * TickMs : k \in 0..MaxWaitTicks},
                 body_after : {k * TickMs : k \in 0..MaxWaitTicks},
                 status : {200, 500},
                 phase : {"fetch"}, armed : {TRUE}, elapsed : {0},
                 result : {NoResult}]

\* Time passes while the call is in flight; a timer that is due fires, and a
\* response or a body that has arrived is taken, before more time passes
AttemptTick ==
    /\ call.phase \in {"fetch", "body"}
    /\ call.elapsed < MaxWaitTicks * TickMs
    /\ ~(call.armed /\ call.elapsed >= TIMEOUT_MS)
    /\ ~(call.phase = "fetch" /\ call.elapsed >= call.headers_after)
    /\ ~(call.phase = "body" /\ call.elapsed >= call.headers_after + call.body_after)
    /\ call' = [call EXCEPT !.elapsed = @ + TickMs]
    /\ UNCHANGED <<requests, variable_conflict, now, trigger_func, txns, queue_seq, queue, inv,
                   tasks, subs, webhook_logs, notified, claims_since_pending, consecutive>>

\* await fetch(...) resolves with the response; clearTimeout(timeoutId)
ResponseArrives ==
    /\ call.phase = "fetch"
    /\ call.elapsed >= call.headers_after
    /\ call' = [call EXCEPT !.phase = "body", !.armed = FALSE]
    /\ UNCHANGED <<requests, variable_conflict, now, trigger_func, txns, queue_seq, queue, inv,
                   tasks, subs, webhook_logs, notified, claims_since_pending, consecutive>>

\* await response.text() resolves; the result is built from the status
BodyRead ==
    /\ call.phase = "body"
    /\ call.elapsed >= call.headers_after + call.body_after
    /\ call' = [call EXCEPT !.phase = "returned",
                            !.result = ResponseOf(Http(call.status), 0)]
    /\ UNCHANGED <<requests, variable_conflict, now, trigger_func, txns, queue_seq, queue, inv,
                   tasks, subs, webhook_logs, notified, claims_since_pending, consecutive>>

\* The timer fires: controller.abort() rejects the fetch with an AbortError,
\* which the catch turns into the TIMEOUT result
TimerFires ==
    /\ call.armed
    /\ call.elapsed >= TIMEOUT_MS
    /\ call.phase = "fetch"
    /\ call' = [call EXCEPT !.phase = "returned", !.armed = FALSE,
                            !.result = ResponseOf(Timeout, 0)]
    /\ UNCHANGED <<requests, variable_conflict, now, trigger_func, txns, queue_seq, queue, inv,
                   tasks, subs, webhook_logs, notified, claims_since_pending, consecutive>>

NextAttempt == AttemptTick \/ ResponseArrives \/ BodyRead \/ TimerFires

SpecAttempt == InitAttempt /\ [][NextAttempt]_vars

\* C35: an attempt is never in flight, waiting for the response or reading
\* its body, for longer than the timeout; an attempt that was in flight when
\* the timeout elapsed has ended as a failure with error code TIMEOUT.
C35_AttemptBoundedByTimeout ==
    /\ call.phase \in {"fetch", "body"} => call.elapsed <= TIMEOUT_MS
    /\ (call.phase = "returned" /\ call.elapsed >= TIMEOUT_MS
          /\ call.headers_after + call.body_after > TIMEOUT_MS) =>
            (~call.result.success /\ call.result.errorCode = "TIMEOUT")

(***************************************************************************)
(* Completed entries                                                       *)
(***************************************************************************)
\* C37: a queue entry in status completed is still completed after every step
\* of the process_queue and queue_id requests, whatever they read before.
C37_CompletedIsAbsorbing ==
    [][\A id \in DOMAIN queue :
          queue[id].status = "completed" => queue'[id].status = "completed"]_vars

(***************************************************************************)
(* The failure counter under concurrent dispatches                         *)
(***************************************************************************)
\* C38: recording a failed delivery never stores a failure_count lower than
\* the one stored at that moment; the counter goes down only through a
\* recorded success or the owner's reactivation.
C38_FailureNeverLowersCounter ==
    [][\A d \in Dispatchers, s \in DOMAIN subs :
          (RecordOutcome(d, 0, s) /\ ~tasks[d][0].results[s].success) =>
             subs'[s].failure_count >= subs[s].failure_count]_vars

(***************************************************************************)
(* Active subscriptions and the failure threshold                          *)
(***************************************************************************)
\* A subscription created through the administration API, concurrent direct
\* dispatches of its event to a failing or answering destination, and the
\* owner who suspends and reactivates it at any moment
NextSuspend ==
    \/ CreateSubscription(ExampleUrl, {ContactCreated}, <<"a">>, MaxSubs)
    \/ \E s \in DOMAIN subs, active \in BOOLEAN : UpdateSubscription(s, active)
    \/ \E d \in Dispatchers : DispatchEvent(d, ContactCreated)
    \/ \E d \in Dispatchers : LookupOk(d, 0)
    \/ \E d \in Dispatchers : Deliver(d, 0, {AlwaysOk, Always500})
    \/ \E d \in Dispatchers, s \in DOMAIN subs : RecordOutcome(d, 0, s)

SpecSuspend == Init /\ [][NextSuspend]_vars

\* C39: every active subscription has failure_count below the threshold of
\* 10, whatever outcomes the dispatches record and whatever the owner creates
\* and updates in between.
C39_ActiveBelowThreshold ==
    \A s \in DOMAIN subs : subs[s].active => subs[s].failure_count < MAX_FAILURE_COUNT

\* The counter of an active subscription has been reset (stored 0) while a
\* dispatch that read failure_count 9 before is about to record its failure
C39_ReactivatedBeforeStaleFailure ==
    \E s \in DOMAIN subs, d \in Dispatchers :
        /\ subs[s].active
        /\ subs[s].failure_count = 0
        /\ consecutive[s] = 0
        /\ 0 \in DOMAIN tasks[d]
        /\ tasks[d][0].pc = "record"
        /\ s \in tasks[d][0].todo
        /\ ~tasks[d][0].results[s].success
        /\ tasks[d][0].matched[s].failure_count = MAX_FAILURE_COUNT - 1

(***************************************************************************)
(* The URL policy on the administration paths                              *)
(***************************************************************************)
\* C40: every outbound request, the test delivery of the administration API
\* included, goes to a URL that validateWebhookUrl accepts.
C40_NoRequestToRejectedUrl ==
    \A r \in requests : validateWebhookUrl(r.url)

====
